---- MODULE Spec2Model ----
(***************************************************************************)
(* TxnManager of the storage node (be/src/olap/txn_manager.cpp): the       *)
(* sharded transaction index (tablet_map, partition_map), the rowset meta  *)
(* store it persists committed rowsets to, and the prepare / commit /      *)
(* publish / rollback / delete state machine over them.                    *)
(*                                                                         *)
(* Every section of a handler that runs under one shard guard is one       *)
(* atomic step; the steps of commit_txn and publish_txn that run outside   *)
(* the shard guard (the store write, make_visible) are steps of their own, *)
(* so that other threads can run between them.                             *)
(***************************************************************************)
EXTENDS Integers, Sequences, FiniteSets, TLC

(***************************************************************************)
(* Bounds of the model.                                                    *)
(***************************************************************************)
\* the clock (UnixSeconds) runs from 0 to MaxTime in the universe that has a clock
MaxTime == 1
\* publish versions are (v, v) for v in 1..MaxVersion
MaxVersion == 1
\* the rows of one batch of the primary key index (int batch_size = 1024)
batch_size == 2
\* the handlers each of two concurrent threads calls
MaxCalls == 2
\* the primary keys of a segment are drawn from 1..MaxKeys
MaxKeys == 5

(***************************************************************************)
(* Configuration of the program.                                           *)
(***************************************************************************)
\* TxnManager(txn_map_shard_size, txn_shard_size): both powers of two
txn_map_shard_size == 2
txn_shard_size == 2
\* config::max_runnings_transactions_per_txn_map
max_runnings_transactions_per_txn_map == 1
\* config::pending_data_expire_time_sec
pending_data_expire_time_sec == 1

(***************************************************************************)
(* Identifiers.                                                            *)
(***************************************************************************)
NullRowset == "nullptr"
NullMeta == "nullptr_meta"
TheMeta == "meta"
NoThread == "unlocked"

\* TabletInfo(tablet_id, schema_hash, tablet_uid)
TabletInfo(tablet_id, schema_hash, tablet_uid) ==
    [tablet_id |-> tablet_id, schema_hash |-> schema_hash, tablet_uid |-> tablet_uid]

T1 == TabletInfo(7, 42, "U1")
T2 == TabletInfo(8, 42, "U2")
T3 == TabletInfo(9, 42, "U3")
T4 == TabletInfo(10, 42, "U4")
Tablets == {T1, T2, T3, T4}

\* the arguments (partition_id, transaction_id, tablet_info) every handler takes
Req(partition_id, transaction_id, tablet_info) ==
    [partition_id |-> partition_id, transaction_id |-> transaction_id,
     tablet_info |-> tablet_info]

K1 == Req(1, 1, T1)
\* another partition of the same transaction
K2 == Req(2, 1, T1)
\* another tablet under the same TxnKey
K3 == Req(1, 1, T2)
\* another transaction in the same map shard (3 & 1 = 1 & 1)
K4 == Req(1, 3, T4)
\* a transaction in the other map shard
K5 == Req(1, 2, T1)
\* a request for the merge-on-write tablet
K6 == Req(1, 1, T3)

\* the transactions, tablet ids, DeltaWriter objects and node ids of the slave-pull
\* bookkeeping; transactions 1 and 3 are in the same map shard
WriterTxns == {1, 3}
WriterTablets == {7, 8}
DeltaWriters == {"W1", "W2"}
NodeIds == {5}
NoWriter == "none"

\* PUniqueId load ids (hi, lo)
L1 == [hi |-> 1, lo |-> 1]
L2 == [hi |-> 1, lo |-> 2]
NoLoad == [hi |-> 0, lo |-> 0]

\* Rowset objects (RowsetSharedPtr). A rowset is written by one load for one
\* tablet under one transaction, so no rowset is offered to two requests.
Rowsets == {"R1", "R2", "R3", "R4"}

\* Rowset::rowset_id()
RowsetIdOf(r) ==
    CASE r = "R1" -> 101 [] r = "R2" -> 102 [] r = "R3" -> 103 [] r = "R4" -> 104

\* the unpublished version of a fresh rowset
Unpublished == <<0, 0>>
Versions == {<<v, v>> : v \in 1..MaxVersion}

(***************************************************************************)
(* The universes the requests are drawn from. Each behaviour lives in one  *)
(* of them: the keys, load ids, rowsets and publish versions its calls may *)
(* name, and how far its clock runs.                                       *)
(***************************************************************************)
Universes ==
    { \* one key, two load ids, two rowsets
      [keys |-> {K1}, loads |-> {L1, L2}, rowsets |-> (K1 :> {"R1", "R2"}), clock |-> 0,
       versions |-> Versions],
      \* two partitions of one transaction
      [keys |-> {K1, K2}, loads |-> {L1},
       rowsets |-> (K1 :> {"R1"} @@ K2 :> {"R3"}), clock |-> 0,
       versions |-> {<<1, 1>>}],
      \* two tablets under one TxnKey
      [keys |-> {K1, K3}, loads |-> {L1},
       rowsets |-> (K1 :> {"R1"} @@ K3 :> {"R3"}), clock |-> 0,
       versions |-> {<<1, 1>>}],
      \* two transactions in one map shard
      [keys |-> {K1, K4}, loads |-> {L1},
       rowsets |-> (K1 :> {"R1"} @@ K4 :> {"R2"}), clock |-> 0,
       versions |-> {<<1, 1>>}],
      \* two transactions in two map shards
      [keys |-> {K1, K5}, loads |-> {L1},
       rowsets |-> (K1 :> {"R1"} @@ K5 :> {"R3"}), clock |-> 0,
       versions |-> {<<1, 1>>}],
      \* a clock that runs, and a second key in the other map shard that is only
      \* ever prepared
      [keys |-> {K1, K5}, loads |-> {L1}, rowsets |-> (K1 :> {"R1"} @@ K5 :> {}),
       clock |-> MaxTime, versions |-> {<<1, 1>>}],
      \* one key of the merge-on-write tablet, and a unique-key rowset
      [keys |-> {K6}, loads |-> {L1}, rowsets |-> (K6 :> {"R4"}), clock |-> 0,
       versions |-> Versions] }

VARIABLES
    universe,        \* the universe of this behaviour (never changes)
    tablet_map,      \* _txn_tablet_maps[shard]: TxnKey -> (TabletInfo -> TabletTxnInfo)
    partition_map,   \* _txn_partition_maps[shard]: transaction id -> set of partition ids
    rms,             \* the RowsetMetaStore: (tablet_uid, rowset_id) -> stored rowset meta
    rowset_version,  \* the in-memory version of every rowset object
    tablet_meta,     \* per tablet: the delete bitmap in memory, and the one last saved
    now,             \* UnixSeconds()
    txn_mutex,       \* _txn_mutex[shard]: the thread that holds it
    pc,              \* where each thread is in its handler
    call,            \* the arguments and locals of the handler each thread runs
    ret,             \* what the last handler of each thread returned
    recovered,       \* history: the rowsets whose index entry came from a recovery commit
    last_publish,    \* history: the request of the publish_txn that has just returned
                     \* ok, when no step of any other call but a delete_txn of the
                     \* same request has run since
    last_prepare,    \* history: the arguments of the prepare_txn that has just returned
                     \* ok, when no step of any other call has run since, and whether
                     \* it was itself the second of two such calls
    last_failed,     \* history: the arguments of the commit_txn or publish_txn that has
                     \* just returned SaveFailed, while no other call has run since or
                     \* the same call is running again
    calls_left,      \* how many more handlers each thread may call, where the universe
                     \* bounds it
    txn_tablet_delta_writer_map,
                     \* _txn_tablet_delta_writer_map[shard]:
                     \* transaction id -> (tablet id -> DeltaWriter*)
    notified         \* the last DeltaWriter::finish_slave_tablet_pull_rowset call made,
                     \* and the parity of the number of such calls

vars == <<universe, tablet_map, partition_map, rms, rowset_version, tablet_meta, now,
          txn_mutex, pc, call, ret, recovered, last_publish, last_prepare, last_failed,
          calls_left, txn_tablet_delta_writer_map, notified>>

\* the slave-pull bookkeeping, which no handler of the transaction index touches
writer_vars == <<txn_tablet_delta_writer_map, notified>>

Threads == DOMAIN pc

(***************************************************************************)
(* Shards.                                                                 *)
(***************************************************************************)
RECURSIVE BitAnd(_, _)
BitAnd(a, b) ==
    IF a = 0 \/ b = 0 THEN 0
    ELSE (a % 2) * (b % 2) + 2 * BitAnd(a \div 2, b \div 2)

MapShards == 0..(txn_map_shard_size - 1)
TxnShards == 0..(txn_shard_size - 1)

\* the index of _get_txn_map_lock / _get_txn_tablet_map / _get_txn_partition_map
MapShardOf(transaction_id) == BitAnd(transaction_id, txn_map_shard_size - 1)
\* the index of _get_txn_lock
TxnShardOf(transaction_id) == BitAnd(transaction_id, txn_shard_size - 1)

(***************************************************************************)
(* Maps (std::map / std::unordered_map) as functions with a finite domain. *)
(***************************************************************************)
EmptyMap == [x \in {} |-> x]

\* m[k] = v
MapPut(m, k, v) == [x \in DOMAIN m \cup {k} |-> IF x = k THEN v ELSE m[x]]
\* m.erase(k)
MapErase(m, k) == [x \in DOMAIN m \ {k} |-> m[x]]

TxnKey(req) == <<req.partition_id, req.transaction_id>>

\* TabletTxnInfo(load_id, rowset): creation_time is the time of construction
TabletTxnInfo(load_id, rowset) ==
    [load_id |-> load_id, rowset |-> rowset, creation_time |-> now]

\* it != txn_tablet_map.end() && load_itr != it->second.end()
HasEntry(txn_tablet_map, req) ==
    /\ TxnKey(req) \in DOMAIN txn_tablet_map
    /\ req.tablet_info \in DOMAIN txn_tablet_map[TxnKey(req)]

EntryOf(txn_tablet_map, req) == txn_tablet_map[TxnKey(req)][req.tablet_info]

\* a variant of PutEntry that drops the other tablets under the TxnKey
PutEntry_Alone(txn_tablet_map, req, load_info) ==
    MapPut(txn_tablet_map, TxnKey(req), MapPut(EmptyMap, req.tablet_info, load_info))

\* a variant of PutEntry that keeps an entry already present, as an emplace would
PutEntry_Emplace(txn_tablet_map, req, load_info) ==
    IF HasEntry(txn_tablet_map, req) THEN txn_tablet_map
    ELSE LET key == TxnKey(req)
             inner == IF key \in DOMAIN txn_tablet_map THEN txn_tablet_map[key] ELSE EmptyMap
         IN  MapPut(txn_tablet_map, key, MapPut(inner, req.tablet_info, load_info))

\* txn_tablet_map[key][tablet_info] = load_info
PutEntry(txn_tablet_map, req, load_info) ==
    LET key == TxnKey(req)
        inner == IF key \in DOMAIN txn_tablet_map THEN txn_tablet_map[key] ELSE EmptyMap
    IN  MapPut(txn_tablet_map, key, MapPut(inner, req.tablet_info, load_info))

\* a variant of SameLoadId that finds no two load ids equal
SameLoadId_Never(a, b) == FALSE

\* load_info.load_id.hi() == load_id.hi() && load_info.load_id.lo() == load_id.lo()
SameLoadId(a, b) == a.hi = b.hi /\ a.lo = b.lo

\* _insert_txn_partition_map_unlocked on one shard's partition map
InsertTxnPartitionMap(txn_partition_map, transaction_id, partition_id) ==
    LET have == IF transaction_id \in DOMAIN txn_partition_map
                THEN txn_partition_map[transaction_id] ELSE {}
    IN  MapPut(txn_partition_map, transaction_id, have \cup {partition_id})

\* a variant of ClearTxnPartitionMap that drops the transaction with all its partitions
ClearTxnPartitionMap_EraseTxn(txn_partition_map, transaction_id, partition_id) ==
    MapErase(txn_partition_map, transaction_id)

\* _clear_txn_partition_map_unlocked on one shard's partition map
ClearTxnPartitionMap(txn_partition_map, transaction_id, partition_id) ==
    IF transaction_id \in DOMAIN txn_partition_map
    THEN LET left == txn_partition_map[transaction_id] \ {partition_id}
         IN  IF left = {} THEN MapErase(txn_partition_map, transaction_id)
             ELSE MapPut(txn_partition_map, transaction_id, left)
    ELSE txn_partition_map

\* it->second.erase(tablet_info), for a key that is in the map
EraseTablet(txn_tablet_map, req) ==
    MapPut(txn_tablet_map, TxnKey(req),
           MapErase(txn_tablet_map[TxnKey(req)], req.tablet_info))

(***************************************************************************)
(* The rowset meta store.                                                  *)
(***************************************************************************)
\* a function from the keys (tablet_uid, rowset_id) that are in the store to the
\* rowset meta stored under them

\* rowset_ptr->rowset_meta()->get_rowset_pb(): the meta as it is in memory now
RowsetPb(r) ==
    [rowset_id |-> RowsetIdOf(r), start_version |-> rowset_version[r][1],
     end_version |-> rowset_version[r][2]]

\* RowsetMetaManager::save
RmsSave(store, tablet_uid, rowset_id, pb) == MapPut(store, <<tablet_uid, rowset_id>>, pb)

\* RowsetMetaManager::remove
RmsRemove(store, tablet_uid, rowset_id) == MapErase(store, <<tablet_uid, rowset_id>>)

\* RowsetMetaManager::remove of several rowsets of one tablet
RECURSIVE RmsRemoveAll(_, _, _)
RmsRemoveAll(store, tablet_uid, rowsets) ==
    IF rowsets = {} THEN store
    ELSE LET r == CHOOSE x \in rowsets : TRUE
         IN  RmsRemoveAll(RmsRemove(store, tablet_uid, RowsetIdOf(r)), tablet_uid,
                          rowsets \ {r})

(***************************************************************************)
(* Calls.                                                                  *)
(***************************************************************************)
NoCall ==
    [op |-> "none", req |-> Req(0, 0, TabletInfo(0, 0, "none")), load_id |-> NoLoad,
     rowset |-> NullRowset, is_recovery |-> FALSE, version |-> Unpublished,
     meta |-> NullMeta, rowset_ptr |-> NullRowset, i |-> 0, remaining |-> 0,
     last_key |-> 0, processed |-> <<>>, now |-> 0, expire_txn_map |-> EmptyMap,
     delta_writer |-> "none", node_id |-> 0, is_succeed |-> FALSE, raced |-> FALSE]

NoPrepare == [req |-> Req(0, 0, TabletInfo(0, 0, "none")), load_id |-> NoLoad, second |-> FALSE]

NoPublish == Req(0, 0, TabletInfo(0, 0, "none"))

\* no DeltaWriter has been notified
NoNotification == [writer |-> "none", node_id |-> 0, is_succeed |-> FALSE, parity |-> 0]

NoRet == [op |-> "none", req |-> Req(0, 0, TabletInfo(0, 0, "none")), status |-> "none",
          line |-> 0, unused |-> <<>>, expire_txn_map |-> EmptyMap, raced |-> FALSE]

\* the arguments of a call, without its locals
FailedCall(c) ==
    [NoCall EXCEPT !.op = c.op, !.req = c.req, !.load_id = c.load_id, !.rowset = c.rowset,
                   !.is_recovery = c.is_recovery, !.version = c.version, !.meta = c.meta]

\* the handler returns at source line `line` with `status`, having handed the
\* rowsets `unused` to StorageEngine::add_unused_rowset
ReturnWith(th, status, line, unused) ==
    /\ ret' = [ret EXCEPT ![th] = [op |-> call[th].op, req |-> call[th].req,
                                   status |-> status, line |-> line, unused |-> unused,
                                   expire_txn_map |-> call[th].expire_txn_map,
                                   raced |-> call[th].raced]]
    /\ last_publish' = IF call[th].op = "publish_txn" /\ status = "OK"
                       THEN call[th].req ELSE NoPublish
    /\ pc' = [pc EXCEPT ![th] = "idle"]
    /\ call' = [call EXCEPT ![th] = NoCall]
    /\ last_prepare' = IF call[th].op = "prepare_txn" /\ status = "OK"
                       THEN [req |-> call[th].req, load_id |-> call[th].load_id,
                             second |-> last_prepare # NoPrepare]
                       ELSE NoPrepare
    /\ last_failed' = IF status = "OLAP_ERR_ROWSET_SAVE_FAILED"
                      THEN FailedCall(call[th]) ELSE NoCall

Return(th, status, line) == ReturnWith(th, status, line, <<>>)

\* a handler of the slave-pull bookkeeping returns; it returns nothing, and only
\* which handler it was is kept
ReturnVoid(th) ==
    /\ ret' = [ret EXCEPT ![th] = [NoRet EXCEPT !.op = call[th].op]]
    /\ pc' = [pc EXCEPT ![th] = "idle"]
    /\ call' = [call EXCEPT ![th] = NoCall]
    /\ last_publish' = NoPublish
    /\ last_prepare' = NoPrepare
    /\ last_failed' = NoCall

Goto(th, label) ==
    /\ pc' = [pc EXCEPT ![th] = label]
    /\ last_prepare' = NoPrepare
    /\ last_publish' = NoPublish
    /\ UNCHANGED <<ret, last_failed>>

\* no bound on the number of calls of a thread
Unbounded == -1

InitWith(threads, universes) ==
    /\ universe \in universes
    /\ tablet_map = [s \in MapShards |-> EmptyMap]
    /\ partition_map = [s \in MapShards |-> EmptyMap]
    /\ rms = EmptyMap
    /\ rowset_version = [r \in Rowsets |-> Unpublished]
    /\ tablet_meta = [t \in Tablets |-> [delete_bitmap |-> {}, saved |-> {}]]
    /\ now = 0
    /\ txn_mutex = [s \in TxnShards |-> NoThread]
    /\ pc = [th \in threads |-> "idle"]
    /\ call = [th \in threads |-> NoCall]
    /\ ret = [th \in threads |-> NoRet]
    /\ recovered = {}
    /\ last_prepare = NoPrepare
    /\ last_publish = NoPublish
    /\ last_failed = NoCall
    /\ calls_left = [th \in threads |->
                        IF "calls" \in DOMAIN universe THEN universe.calls ELSE Unbounded]
    /\ txn_tablet_delta_writer_map = [s \in MapShards |-> EmptyMap]
    /\ notified = NoNotification

Init == InitWith({"t1"}, Universes)

data_vars == <<tablet_map, partition_map, rms, rowset_version, tablet_meta, now, txn_mutex,
               recovered>>

\* the requests a thread calls the handlers with: those of the universe, or those
\* the universe gives to the thread
KeysOf(th) ==
    IF "owner" \in DOMAIN universe THEN universe.owner[th] ELSE universe.keys

\* history: the call c of thread th is a publish_txn for a request whose entry is
\* committed, made while another thread is in a publish_txn for the same request
Races(th, c) ==
    /\ c.op = "publish_txn"
    /\ HasEntry(tablet_map[MapShardOf(c.req.transaction_id)], c.req)
    /\ EntryOf(tablet_map[MapShardOf(c.req.transaction_id)], c.req).rowset # NullRowset
    /\ \E other \in Threads \ {th} :
          call[other].op = "publish_txn" /\ call[other].req = c.req

\* a thread that runs no handler calls one, with arguments of the universe
Invoke(th, c, label) ==
    /\ pc[th] = "idle"
    /\ call' = [x \in Threads |->
                  IF x = th THEN [c EXCEPT !.raced = Races(th, c)]
                  ELSE IF Races(th, c) /\ call[x].op = "publish_txn" /\ call[x].req = c.req
                  THEN [call[x] EXCEPT !.raced = TRUE]
                  ELSE call[x]]
    /\ pc' = [pc EXCEPT ![th] = label]
    /\ ret' = [ret EXCEPT ![th] = NoRet]
    /\ last_prepare' = IF c.op = "prepare_txn" /\ last_prepare.req = c.req
                          /\ last_prepare.load_id = c.load_id
                       THEN last_prepare ELSE NoPrepare
    /\ last_publish' = IF c.op = "delete_txn" /\ last_publish = c.req
                       THEN last_publish ELSE NoPublish
    /\ last_failed' = IF c = last_failed THEN last_failed ELSE NoCall
    /\ calls_left[th] # 0
    /\ calls_left' = IF calls_left[th] = Unbounded THEN calls_left
                     ELSE [calls_left EXCEPT ![th] = @ - 1]
    /\ UNCHANGED <<universe, writer_vars, data_vars>>

\* a variant of TxnLock that does not wait for the mutex
TxnLock_NoWait(th, transaction_id) ==
    txn_mutex' = [txn_mutex EXCEPT ![TxnShardOf(transaction_id)] = th]

\* std::unique_lock<std::mutex> txn_lock(_get_txn_lock(transaction_id))
TxnLock(th, transaction_id) ==
    /\ txn_mutex[TxnShardOf(transaction_id)] = NoThread
    /\ txn_mutex' = [txn_mutex EXCEPT ![TxnShardOf(transaction_id)] = th]

\* a variant of TxnUnlock that leaves the mutex locked
TxnUnlock_Never(th) == UNCHANGED txn_mutex

\* the unique_lock goes out of scope when the handler returns
TxnUnlock(th) ==
    txn_mutex' = [s \in TxnShards |-> IF txn_mutex[s] = th THEN NoThread ELSE txn_mutex[s]]

(***************************************************************************)
(* prepare_txn                                                             *)
(***************************************************************************)
call_prepare_txn(th) ==
    \E req \in KeysOf(th), load_id \in universe.loads :
        Invoke(th, [NoCall EXCEPT !.op = "prepare_txn", !.req = req, !.load_id = load_id],
               "prepare_txn")

\* a variant of PrepareFindsCommitted that never returns early
PrepareFindsCommitted_Never(txn_tablet_map, req, load_id) == FALSE

\* a variant of PrepareFindsCommitted that returns early only in a shard within the cap
PrepareFindsCommitted_AfterCap(txn_tablet_map, req, load_id) ==
    /\ HasEntry(txn_tablet_map, req)
    /\ SameLoadId(EntryOf(txn_tablet_map, req).load_id, load_id)
    /\ EntryOf(txn_tablet_map, req).rowset # NullRowset
    /\ Cardinality(DOMAIN partition_map[MapShardOf(req.transaction_id)])
          <= max_runnings_transactions_per_txn_map

\* the entry is committed with this load id: prepare has nothing to do
PrepareFindsCommitted(txn_tablet_map, req, load_id) ==
    /\ HasEntry(txn_tablet_map, req)
    /\ SameLoadId(EntryOf(txn_tablet_map, req).load_id, load_id)
    /\ EntryOf(txn_tablet_map, req).rowset # NullRowset

\* txn_partition_map.size() > config::max_runnings_transactions_per_txn_map
TooManyTransactions(txn_partition_map) ==
    Cardinality(DOMAIN txn_partition_map) > max_runnings_transactions_per_txn_map

prepare_txn(th) ==
    /\ pc[th] = "prepare_txn"
    /\ LET c == call[th]
           shard == MapShardOf(c.req.transaction_id)
       IN  IF PrepareFindsCommitted(tablet_map[shard], c.req, c.load_id)
           THEN /\ Return(th, "OK", 144)
                /\ UNCHANGED <<tablet_map, partition_map>>
           ELSE IF TooManyTransactions(partition_map[shard])
           THEN /\ Return(th, "OLAP_ERR_TOO_MANY_TRANSACTIONS", 155)
                /\ UNCHANGED <<tablet_map, partition_map>>
           ELSE /\ tablet_map' =
                      [tablet_map EXCEPT ![shard] =
                          PutEntry(@, c.req, TabletTxnInfo(c.load_id, NullRowset))]
                /\ partition_map' =
                      [partition_map EXCEPT ![shard] =
                          InsertTxnPartitionMap(@, c.req.transaction_id, c.req.partition_id)]
                /\ Return(th, "OK", 168)
    /\ UNCHANGED <<universe, writer_vars, calls_left, tablet_meta, rms, rowset_version, now, txn_mutex, recovered>>

(***************************************************************************)
(* commit_txn                                                              *)
(***************************************************************************)
call_commit_txn(th) ==
    \E req \in KeysOf(th), load_id \in universe.loads, is_recovery \in BOOLEAN :
        \E rowset \in universe.rowsets[req] \cup {NullRowset} :
            Invoke(th, [NoCall EXCEPT !.op = "commit_txn", !.req = req, !.load_id = load_id,
                                      !.rowset = rowset, !.is_recovery = is_recovery,
                                      !.meta = TheMeta],
                   "commit_txn")

\* rowset_ptr == nullptr returns at once; otherwise the per-txn mutex is taken
commit_txn(th) ==
    /\ pc[th] = "commit_txn"
    /\ IF call[th].rowset = NullRowset
       THEN /\ Return(th, "OLAP_ERR_ROWSET_INVALID", 187)
            /\ UNCHANGED txn_mutex
       ELSE /\ TxnLock(th, call[th].req.transaction_id)
            /\ Goto(th, "commit_check")
            /\ UNCHANGED call
    /\ UNCHANGED <<universe, writer_vars, calls_left, tablet_meta, tablet_map, partition_map, rms, rowset_version, now,
                   recovered>>

\* a variant of CommitFindsSameRowset that never recognises a duplicate commit
CommitFindsSameRowset_Never(txn_tablet_map, req, load_id, rowset) == FALSE

\* the entry is committed with this load id and a rowset of the same id
CommitFindsSameRowset(txn_tablet_map, req, load_id, rowset) ==
    /\ HasEntry(txn_tablet_map, req)
    /\ SameLoadId(EntryOf(txn_tablet_map, req).load_id, load_id)
    /\ EntryOf(txn_tablet_map, req).rowset # NullRowset
    /\ RowsetIdOf(EntryOf(txn_tablet_map, req).rowset) = RowsetIdOf(rowset)

\* a variant of CommitFindsOtherRowset that never recognises a conflicting commit
CommitFindsOtherRowset_Never(txn_tablet_map, req, load_id, rowset) == FALSE

\* the entry is committed with this load id and a rowset of another id
CommitFindsOtherRowset(txn_tablet_map, req, load_id, rowset) ==
    /\ HasEntry(txn_tablet_map, req)
    /\ SameLoadId(EntryOf(txn_tablet_map, req).load_id, load_id)
    /\ EntryOf(txn_tablet_map, req).rowset # NullRowset
    /\ RowsetIdOf(EntryOf(txn_tablet_map, req).rowset) # RowsetIdOf(rowset)

\* the lookup under the shard's read guard
commit_check(th) ==
    /\ pc[th] = "commit_check"
    /\ LET c == call[th]
           txn_tablet_map == tablet_map[MapShardOf(c.req.transaction_id)]
       IN  IF CommitFindsSameRowset(txn_tablet_map, c.req, c.load_id, c.rowset)
           THEN Return(th, "OK", 211) /\ TxnUnlock(th)
           ELSE IF CommitFindsOtherRowset(txn_tablet_map, c.req, c.load_id, c.rowset)
           THEN Return(th, "OLAP_ERR_PUSH_TRANSACTION_ALREADY_EXIST", 224) /\ TxnUnlock(th)
           ELSE Goto(th, "commit_save") /\ UNCHANGED <<call, txn_mutex>>
    /\ UNCHANGED <<universe, writer_vars, calls_left, tablet_meta, tablet_map, partition_map, rms, rowset_version, now,
                   recovered>>

\* a variant of CommitPersists that writes to the store in recovery too
CommitPersists_Always(is_recovery) == TRUE

\* a variant of CommitPersists that never writes to the store
CommitPersists_Never(is_recovery) == FALSE

\* if (!is_recovery): the rowset meta is persisted
CommitPersists(is_recovery) == ~is_recovery

\* a variant of commit_save that upserts the entry before reporting the failure
commit_save_ThenUpsert(th) ==
    /\ pc[th] = "commit_save"
    /\ LET c == call[th]
           shard == MapShardOf(c.req.transaction_id)
       IN  IF ~CommitPersists(c.is_recovery)
           THEN /\ Goto(th, "commit_upsert")
                /\ UNCHANGED <<call, txn_mutex, rms, tablet_map, partition_map>>
           ELSE \E save_ok \in BOOLEAN :
                   IF save_ok
                   THEN /\ rms' = RmsSave(rms, c.req.tablet_info.tablet_uid,
                                          RowsetIdOf(c.rowset), RowsetPb(c.rowset))
                        /\ Goto(th, "commit_upsert")
                        /\ UNCHANGED <<call, txn_mutex, tablet_map, partition_map>>
                   ELSE /\ tablet_map' =
                              [tablet_map EXCEPT ![shard] =
                                  PutEntry(@, c.req, TabletTxnInfo(c.load_id, c.rowset))]
                        /\ partition_map' =
                              [partition_map EXCEPT ![shard] =
                                  InsertTxnPartitionMap(@, c.req.transaction_id,
                                                        c.req.partition_id)]
                        /\ Return(th, "OLAP_ERR_ROWSET_SAVE_FAILED", 240)
                        /\ TxnUnlock(th)
                        /\ UNCHANGED rms
    /\ UNCHANGED <<universe, writer_vars, calls_left, tablet_meta, rowset_version, now, recovered>>

\* RowsetMetaManager::save outside the shard guard, skipped in recovery
commit_save(th) ==
    /\ pc[th] = "commit_save"
    /\ LET c == call[th]
       IN  IF ~CommitPersists(c.is_recovery)
           THEN Goto(th, "commit_upsert") /\ UNCHANGED <<call, txn_mutex, rms>>
           ELSE \E save_ok \in BOOLEAN :
                   IF save_ok
                   THEN /\ rms' = RmsSave(rms, c.req.tablet_info.tablet_uid,
                                          RowsetIdOf(c.rowset), RowsetPb(c.rowset))
                        /\ Goto(th, "commit_upsert")
                        /\ UNCHANGED <<call, txn_mutex>>
                   ELSE /\ Return(th, "OLAP_ERR_ROWSET_SAVE_FAILED", 240)
                        /\ TxnUnlock(th)
                        /\ UNCHANGED rms
    /\ UNCHANGED <<universe, writer_vars, calls_left, tablet_meta, tablet_map, partition_map, rowset_version, now,
                   recovered>>

\* a variant of commit_upsert that keeps the creation_time of an entry it finds
commit_upsert_KeepTime(th) ==
    /\ pc[th] = "commit_upsert"
    /\ LET c == call[th]
           shard == MapShardOf(c.req.transaction_id)
           load_info == TabletTxnInfo(c.load_id, c.rowset)
           kept == IF HasEntry(tablet_map[shard], c.req)
                   THEN [load_info EXCEPT
                            !.creation_time = EntryOf(tablet_map[shard], c.req).creation_time]
                   ELSE load_info
       IN  /\ tablet_map' = [tablet_map EXCEPT ![shard] = PutEntry(@, c.req, kept)]
           /\ partition_map' =
                 [partition_map EXCEPT ![shard] =
                     InsertTxnPartitionMap(@, c.req.transaction_id, c.req.partition_id)]
           /\ recovered' = IF c.is_recovery THEN recovered \cup {c.rowset}
                           ELSE recovered \ {c.rowset}
    /\ Return(th, "OK", 256)
    /\ TxnUnlock(th)
    /\ UNCHANGED <<universe, writer_vars, calls_left, tablet_meta, rms, rowset_version, now>>

\* the upsert under the shard's write guard
commit_upsert(th) ==
    /\ pc[th] = "commit_upsert"
    /\ LET c == call[th]
           shard == MapShardOf(c.req.transaction_id)
       IN  /\ tablet_map' =
                 [tablet_map EXCEPT ![shard] =
                     PutEntry(@, c.req, TabletTxnInfo(c.load_id, c.rowset))]
           /\ partition_map' =
                 [partition_map EXCEPT ![shard] =
                     InsertTxnPartitionMap(@, c.req.transaction_id, c.req.partition_id)]
           /\ recovered' = IF c.is_recovery THEN recovered \cup {c.rowset}
                           ELSE recovered \ {c.rowset}
    /\ Return(th, "OK", 256)
    /\ TxnUnlock(th)
    /\ UNCHANGED <<universe, writer_vars, calls_left, tablet_meta, rms, rowset_version, now>>

(***************************************************************************)
(* publish_txn                                                             *)
(***************************************************************************)
call_publish_txn(th) ==
    \E req \in KeysOf(th), version \in universe.versions :
        Invoke(th, [NoCall EXCEPT !.op = "publish_txn", !.req = req, !.version = version,
                                  !.meta = TheMeta],
               "publish_txn")

publish_txn(th) ==
    /\ pc[th] = "publish_txn"
    /\ TxnLock(th, call[th].req.transaction_id)
    /\ Goto(th, "publish_lookup")
    /\ UNCHANGED <<universe, writer_vars, calls_left, tablet_meta, tablet_map, partition_map, rms, rowset_version, now,
                   recovered,
                   call>>

\* a variant of PublishLookup that finds no rowset that already has a version
PublishLookup_Unpublished(txn_tablet_map, req) ==
    IF /\ HasEntry(txn_tablet_map, req)
       /\ EntryOf(txn_tablet_map, req).rowset # NullRowset
       /\ rowset_version[EntryOf(txn_tablet_map, req).rowset][1] = 0
    THEN EntryOf(txn_tablet_map, req).rowset
    ELSE NullRowset

\* a variant of PublishLookup that finds a rowset for every request
PublishLookup_Always(txn_tablet_map, req) ==
    IF HasEntry(txn_tablet_map, req) /\ EntryOf(txn_tablet_map, req).rowset # NullRowset
    THEN EntryOf(txn_tablet_map, req).rowset
    ELSE "R1"

\* rowset_ptr = load_info.rowset when the entry is found, nullptr otherwise
PublishLookup(txn_tablet_map, req) ==
    IF HasEntry(txn_tablet_map, req) THEN EntryOf(txn_tablet_map, req).rowset
    ELSE NullRowset

\* the lookup under the shard's read guard, and the test of rowset_ptr
publish_lookup(th) ==
    /\ pc[th] = "publish_lookup"
    /\ LET c == call[th]
           rowset_ptr == PublishLookup(tablet_map[MapShardOf(c.req.transaction_id)], c.req)
       IN  IF rowset_ptr # NullRowset
           THEN /\ call' = [call EXCEPT ![th].rowset_ptr = rowset_ptr]
                /\ Goto(th, "publish_visible")
                /\ UNCHANGED txn_mutex
           ELSE /\ Return(th, "OLAP_ERR_TRANSACTION_NOT_EXIST", 297)
                /\ TxnUnlock(th)
    /\ UNCHANGED <<universe, writer_vars, calls_left, tablet_meta, tablet_map, partition_map, rms, rowset_version, now,
                   recovered>>

\* rowset_ptr->make_visible(version)
MakeVisible(versions, rowset, version) == [versions EXCEPT ![rowset] = version]

\* a variant of publish_visible that does not call make_visible
publish_visible_Skip(th) ==
    /\ pc[th] = "publish_visible"
    /\ Goto(th, "publish_save")
    /\ UNCHANGED <<universe, writer_vars, calls_left, tablet_meta, tablet_map, partition_map, rms, now, txn_mutex,
                   recovered, call, rowset_version>>

publish_visible(th) ==
    /\ pc[th] = "publish_visible"
    /\ rowset_version' = MakeVisible(rowset_version, call[th].rowset_ptr, call[th].version)
    /\ Goto(th, "publish_save")
    /\ UNCHANGED <<universe, writer_vars, calls_left, tablet_meta, tablet_map, partition_map, rms, now, txn_mutex,
                   recovered, call>>

\* RowsetMetaManager::save outside the shard guard
publish_save(th) ==
    /\ pc[th] = "publish_save"
    /\ LET c == call[th]
       IN  \E save_ok \in BOOLEAN :
              IF save_ok
              THEN /\ rms' = RmsSave(rms, c.req.tablet_info.tablet_uid,
                                     RowsetIdOf(c.rowset_ptr), RowsetPb(c.rowset_ptr))
                   /\ Goto(th, "publish_erase")
                   /\ UNCHANGED <<call, txn_mutex>>
              ELSE /\ Return(th, "OLAP_ERR_ROWSET_SAVE_FAILED", 294)
                   /\ TxnUnlock(th)
                   /\ UNCHANGED rms
    /\ UNCHANGED <<universe, writer_vars, calls_left, tablet_meta, tablet_map, partition_map, rowset_version, now,
                   recovered>>

\* a variant of EraseEntry that erases the TxnKey with all its tablets
EraseEntry_WholeKey(txn_tablet_map, txn_partition_map, req) ==
    IF TxnKey(req) \in DOMAIN txn_tablet_map
    THEN <<MapErase(txn_tablet_map, TxnKey(req)),
           ClearTxnPartitionMap(txn_partition_map, req.transaction_id, req.partition_id)>>
    ELSE <<txn_tablet_map, txn_partition_map>>

\* a variant of EraseEntry that clears the partition pair with every tablet erased
EraseEntry_ClearPartition(txn_tablet_map, txn_partition_map, req) ==
    IF TxnKey(req) \in DOMAIN txn_tablet_map
    THEN LET erased == EraseTablet(txn_tablet_map, req)
         IN  IF DOMAIN erased[TxnKey(req)] = {}
             THEN <<MapErase(erased, TxnKey(req)),
                    ClearTxnPartitionMap(txn_partition_map, req.transaction_id,
                                         req.partition_id)>>
             ELSE <<erased,
                    ClearTxnPartitionMap(txn_partition_map, req.transaction_id,
                                         req.partition_id)>>
    ELSE <<txn_tablet_map, txn_partition_map>>

\* a variant of EraseEntry that leaves a TxnKey without tablets in the map
EraseEntry_LeaveEmpty(txn_tablet_map, txn_partition_map, req) ==
    IF TxnKey(req) \in DOMAIN txn_tablet_map
    THEN <<EraseTablet(txn_tablet_map, req), txn_partition_map>>
    ELSE <<txn_tablet_map, txn_partition_map>>

\* a variant of EraseEntry that leaves both maps as they are
EraseEntry_Keep(txn_tablet_map, txn_partition_map, req) ==
    <<txn_tablet_map, txn_partition_map>>

\* it->second.erase(tablet_info); if the TxnKey has no tablet left, erase it and
\* its pair in the partition map. The new (tablet map, partition map) of the shard.
EraseEntry(txn_tablet_map, txn_partition_map, req) ==
    IF TxnKey(req) \in DOMAIN txn_tablet_map
    THEN LET erased == EraseTablet(txn_tablet_map, req)
         IN  IF DOMAIN erased[TxnKey(req)] = {}
             THEN <<MapErase(erased, TxnKey(req)),
                    ClearTxnPartitionMap(txn_partition_map, req.transaction_id,
                                         req.partition_id)>>
             ELSE <<erased, txn_partition_map>>
    ELSE <<txn_tablet_map, txn_partition_map>>

\* the erase under the shard's write guard
publish_erase(th) ==
    /\ pc[th] = "publish_erase"
    /\ LET c == call[th]
           shard == MapShardOf(c.req.transaction_id)
           erased == EraseEntry(tablet_map[shard], partition_map[shard], c.req)
       IN  /\ tablet_map' = [tablet_map EXCEPT ![shard] = erased[1]]
           /\ partition_map' = [partition_map EXCEPT ![shard] = erased[2]]
    /\ Goto(th, "publish_bitmap")
    /\ UNCHANGED <<universe, writer_vars, calls_left, tablet_meta, rms, rowset_version, now, txn_mutex, recovered, call>>

\* The tablets the storage engine holds (get_tablet): T3 and T4 are unique-key
\* merge-on-write tablets of beta rowsets, T2 has merge-on-write enabled but
\* prefers alpha rowsets, T1 has it disabled. With the rowsets of the universes,
\* T1 with R3 fails the first condition of publish_txn only, T2 with R3 the
\* second only, T4 with R2 the third only, and T3 with R4 meets all three.
enable_unique_key_merge_on_write(tablet_info) == tablet_info \in {T2, T3, T4}

preferred_rowset_type(tablet_info) ==
    IF tablet_info = T2 THEN "ALPHA_ROWSET" ELSE "BETA_ROWSET"

\* rowset_ptr->keys_type()
keys_type(rowset) == IF rowset \in {"R3", "R4"} THEN "UNIQUE_KEYS" ELSE "DUP_KEYS"

\* a variant of BuildsDeleteBitmap that does not look at the rowset's keys type
BuildsDeleteBitmap_AnyKeys(tablet_info, rowset) ==
    ~(\/ ~enable_unique_key_merge_on_write(tablet_info)
      \/ preferred_rowset_type(tablet_info) # "BETA_ROWSET")

\* the three conditions under which publish_txn builds the delete bitmap
BuildsDeleteBitmap(tablet_info, rowset) ==
    ~(\/ ~enable_unique_key_merge_on_write(tablet_info)
      \/ preferred_rowset_type(tablet_info) # "BETA_ROWSET"
      \/ keys_type(rowset) # "UNIQUE_KEYS")

\* beta_rowset->load_segments: the segments of a rowset, each the sorted distinct
\* primary keys of its rows; the segment at index i has id i - 1
SegmentsOf(rowset) ==
    IF rowset # "R4" THEN << >>
    ELSE IF "segments" \in DOMAIN universe THEN universe.segments
    ELSE << <<1, 2, 3>>, <<2>> >>

\* Segment::lookup_row_key: the row of a key in a segment, or nothing
SegmentLookup(seg, key) == {i - 1 : i \in {j \in DOMAIN seg : seg[j] = key}}

\* Tablet::lookup_row_key at a snapshot version: where the tablet holds the key in
\* the rowsets published before, or nothing
TabletLookup(tablet_info, key, snapshot) ==
    IF tablet_info = T3 /\ key = 1 /\ snapshot >= 0
    THEN {[rowset_id |-> 100, segment_id |-> 0, row_id |-> 0]}
    ELSE IF tablet_info = T3 /\ key = 2 /\ snapshot >= 1
    THEN {[rowset_id |-> 99, segment_id |-> 1, row_id |-> 4]}
    ELSE {}

\* delete_bitmap().add({rowset_id, segment_id, version}, row_id)
DeleteBitmapAdd(bitmap, rowset_id, segment_id, version, row_id) ==
    bitmap \cup {[rowset_id |-> rowset_id, segment_id |-> segment_id, version |-> version,
                  row_id |-> row_id]}

\* a variant of CheckPkInPreSegments that marks the key in the first segment
\* only, whichever segments hold it
CheckPkInPreSegments_Oldest(rowset, n, key, version, bitmap) ==
    IF n = 0 \/ \A j \in 1..n : SegmentLookup(SegmentsOf(rowset)[j], key) = {}
    THEN <<FALSE, bitmap>>
    ELSE <<TRUE, IF SegmentLookup(SegmentsOf(rowset)[1], key) = {} THEN bitmap
                 ELSE DeleteBitmapAdd(bitmap, RowsetIdOf(rowset), 0, version[1],
                                      CHOOSE r \in SegmentLookup(SegmentsOf(rowset)[1], key) :
                                          TRUE)>>

\* _check_pk_in_pre_segments over the first n segments of the rowset, the last
\* first: <<find, the delete bitmap after it>>
RECURSIVE CheckPkInPreSegments(_, _, _, _, _)
CheckPkInPreSegments(rowset, n, key, version, bitmap) ==
    IF n = 0 THEN <<FALSE, bitmap>>
    ELSE LET rows == SegmentLookup(SegmentsOf(rowset)[n], key)
         IN  IF rows = {} THEN CheckPkInPreSegments(rowset, n - 1, key, version, bitmap)
             ELSE <<TRUE, DeleteBitmapAdd(bitmap, RowsetIdOf(rowset), n - 1, version[1],
                                          CHOOSE r \in rows : TRUE)>>

\* the loop over the keys of one batch of segment i: the delete bitmap after it
RECURSIVE ProcessKeys(_, _, _, _, _, _)
ProcessKeys(tablet_info, rowset, i, keys, version, bitmap) ==
    IF keys = << >> THEN bitmap
    ELSE LET key == Head(keys)
             pre == CheckPkInPreSegments(rowset, i - 1, key, version, bitmap)
             loc == TabletLookup(tablet_info, key, version[1] - 1)
         IN  IF pre[1]
             THEN ProcessKeys(tablet_info, rowset, i, Tail(keys), version, pre[2])
             ELSE IF loc = {}
             THEN ProcessKeys(tablet_info, rowset, i, Tail(keys), version, bitmap)
             ELSE LET l == CHOOSE x \in loc : TRUE
                  IN  ProcessKeys(tablet_info, rowset, i, Tail(keys), version,
                                  DeleteBitmapAdd(bitmap, l.rowset_id, l.segment_id,
                                                  version[1], l.row_id))

\* iter->seek_at_or_after(last_key) and iter->next_batch(num_to_read): the keys
\* read, those from the first key that is not below last_key on
ReadBatch(seg, last_key, num_to_read) ==
    LET from == {j \in DOMAIN seg : seg[j] >= last_key}
        first == IF from = {} THEN Len(seg) + 1
                 ELSE CHOOSE j \in from : \A k \in from : j <= k
        last == IF first + num_to_read - 1 <= Len(seg) THEN first + num_to_read - 1
                ELSE Len(seg)
    IN  SubSeq(seg, first, last)

\* a variant of NumRead that never leaves the last key to the next batch
NumRead_NoDrop(read, remaining) == Len(read)

\* the rows of a batch the loop processes: a full batch that is not the last one
\* leaves its last key to the next batch
NumRead(read, remaining) ==
    IF Len(read) = batch_size /\ Len(read) # remaining THEN Len(read) - 1 ELSE Len(read)

\* the segment the loop turns to after segment i, and the rows it has to read
StartSegment(c, i) ==
    [c EXCEPT !.i = i,
              !.remaining = IF i <= Len(SegmentsOf(c.rowset_ptr))
                            THEN Len(SegmentsOf(c.rowset_ptr)[i]) ELSE 0,
              !.last_key = 0,
              !.processed = << >>]

\* get_tablet, the three conditions, and load_segments
publish_bitmap(th) ==
    /\ pc[th] = "publish_bitmap"
    /\ LET c == call[th]
       IN  IF ~BuildsDeleteBitmap(c.req.tablet_info, c.rowset_ptr)
           THEN Return(th, "OK", 326) /\ TxnUnlock(th)
           ELSE \E load_ok \in BOOLEAN :
                   IF load_ok
                   THEN /\ call' = [call EXCEPT ![th] = StartSegment(c, 1)]
                        /\ Goto(th, "publish_segments")
                        /\ UNCHANGED txn_mutex
                   ELSE Return(th, "ERROR", 337) /\ TxnUnlock(th)
    /\ UNCHANGED <<universe, writer_vars, calls_left, tablet_meta, tablet_map, partition_map, rms, rowset_version, now,
                   recovered>>

\* one turn of the loops over the segments and over the batches of a segment,
\* under the tablet's header lock; after the last segment, tablet->save_meta()
publish_segments(th) ==
    /\ pc[th] = "publish_segments"
    /\ LET c == call[th]
           tablet_info == c.req.tablet_info
           segments == SegmentsOf(c.rowset_ptr)
       IN  IF c.i > Len(segments)
           THEN /\ tablet_meta' = [tablet_meta EXCEPT ![tablet_info].saved =
                                      tablet_meta[tablet_info].delete_bitmap]
                /\ Return(th, "OK", 400)
                /\ TxnUnlock(th)
           ELSE IF c.remaining <= 0
           THEN /\ call' = [call EXCEPT ![th] = StartSegment(c, c.i + 1)]
                /\ Goto(th, "publish_segments")
                /\ UNCHANGED <<tablet_meta, txn_mutex>>
           ELSE \E read_ok \in BOOLEAN :
                   IF read_ok
                   THEN LET num_to_read == IF batch_size < c.remaining THEN batch_size
                                           ELSE c.remaining
                            read == ReadBatch(segments[c.i], c.last_key, num_to_read)
                            num_read == NumRead(read, c.remaining)
                        IN  /\ Len(read) > 0
                            /\ tablet_meta' =
                                  [tablet_meta EXCEPT ![tablet_info].delete_bitmap =
                                      ProcessKeys(tablet_info, c.rowset_ptr, c.i,
                                                  SubSeq(read, 1, num_read), c.version, @)]
                            /\ call' = [call EXCEPT ![th].remaining = c.remaining - num_read,
                                                    ![th].last_key = read[Len(read)],
                                                    ![th].processed =
                                                        @ \o SubSeq(read, 1, num_read)]
                            /\ Goto(th, "publish_segments")
                            /\ UNCHANGED txn_mutex
                   ELSE /\ Return(th, "ERROR", 352)
                        /\ TxnUnlock(th)
                        /\ UNCHANGED tablet_meta
    /\ UNCHANGED <<universe, writer_vars, calls_left, tablet_map, partition_map, rms, rowset_version, now, recovered>>

(***************************************************************************)
(* rollback_txn                                                            *)
(***************************************************************************)
call_rollback_txn(th) ==
    \E req \in KeysOf(th) :
        Invoke(th, [NoCall EXCEPT !.op = "rollback_txn", !.req = req], "rollback_txn")

\* a variant of RollbackFindsCommitted that takes every entry for uncommitted
RollbackFindsCommitted_Never(txn_tablet_map, req) == FALSE

\* the entry has a rowset: another thread may have committed it
RollbackFindsCommitted(txn_tablet_map, req) ==
    /\ HasEntry(txn_tablet_map, req)
    /\ EntryOf(txn_tablet_map, req).rowset # NullRowset

rollback_txn(th) ==
    /\ pc[th] = "rollback_txn"
    /\ LET c == call[th]
           shard == MapShardOf(c.req.transaction_id)
           erased == EraseEntry(tablet_map[shard], partition_map[shard], c.req)
       IN  IF RollbackFindsCommitted(tablet_map[shard], c.req)
           THEN /\ Return(th, "OLAP_ERR_TRANSACTION_ALREADY_COMMITTED", 440)
                /\ UNCHANGED <<tablet_map, partition_map>>
           ELSE /\ tablet_map' = [tablet_map EXCEPT ![shard] = erased[1]]
                /\ partition_map' = [partition_map EXCEPT ![shard] = erased[2]]
                /\ Return(th, "OK", 452)
    /\ UNCHANGED <<universe, writer_vars, calls_left, tablet_meta, rms, rowset_version, now, txn_mutex, recovered>>

(***************************************************************************)
(* delete_txn                                                              *)
(***************************************************************************)
call_delete_txn(th) ==
    \E req \in KeysOf(th), meta \in {TheMeta, NullMeta} :
        Invoke(th, [NoCall EXCEPT !.op = "delete_txn", !.req = req, !.meta = meta],
               "delete_txn")

\* a variant of DeleteFindsNoTxnKey that never misses the TxnKey
DeleteFindsNoTxnKey_Never(txn_tablet_map, req) == FALSE

\* a variant of DeleteFindsNoTxnKey that also misses a TxnKey without the tablet
DeleteFindsNoTxnKey_NoEntry(txn_tablet_map, req) == ~HasEntry(txn_tablet_map, req)

\* it == txn_tablet_map.end()
DeleteFindsNoTxnKey(txn_tablet_map, req) == TxnKey(req) \notin DOMAIN txn_tablet_map

\* a variant of DeleteFindsRowset that never finds a rowset to remove
DeleteFindsRowset_Never(txn_tablet_map, req, meta) == FALSE

\* load_itr != end && load_info.rowset != nullptr && meta != nullptr
DeleteFindsRowset(txn_tablet_map, req, meta) ==
    /\ HasEntry(txn_tablet_map, req)
    /\ EntryOf(txn_tablet_map, req).rowset # NullRowset
    /\ meta # NullMeta

\* a variant of AlreadyPublished that takes every rowset for unpublished
AlreadyPublished_Never(rowset) == FALSE

\* load_info.rowset->version().first > 0
AlreadyPublished(rowset) == rowset_version[rowset][1] > 0

delete_txn(th) ==
    /\ pc[th] = "delete_txn"
    /\ LET c == call[th]
           shard == MapShardOf(c.req.transaction_id)
           txn_tablet_map == tablet_map[shard]
           erased == EraseEntry(txn_tablet_map, partition_map[shard], c.req)
       IN  IF DeleteFindsNoTxnKey(txn_tablet_map, c.req)
           THEN /\ Return(th, "OLAP_ERR_TRANSACTION_NOT_EXIST", 466)
                /\ UNCHANGED <<tablet_map, partition_map, rms>>
           ELSE IF /\ DeleteFindsRowset(txn_tablet_map, c.req, c.meta)
                   /\ AlreadyPublished(EntryOf(txn_tablet_map, c.req).rowset)
           THEN /\ Return(th, "OLAP_ERR_TRANSACTION_ALREADY_COMMITTED", 482)
                /\ UNCHANGED <<tablet_map, partition_map, rms>>
           ELSE IF DeleteFindsRowset(txn_tablet_map, c.req, c.meta)
           THEN /\ rms' = RmsRemove(rms, c.req.tablet_info.tablet_uid,
                                    RowsetIdOf(EntryOf(txn_tablet_map, c.req).rowset))
                /\ tablet_map' = [tablet_map EXCEPT ![shard] = erased[1]]
                /\ partition_map' = [partition_map EXCEPT ![shard] = erased[2]]
                /\ ReturnWith(th, "OK", 502, <<EntryOf(txn_tablet_map, c.req).rowset>>)
           ELSE /\ tablet_map' = [tablet_map EXCEPT ![shard] = erased[1]]
                /\ partition_map' = [partition_map EXCEPT ![shard] = erased[2]]
                /\ Return(th, "OK", 502)
                /\ UNCHANGED rms
    /\ UNCHANGED <<universe, writer_vars, calls_left, tablet_meta, rowset_version, now, txn_mutex, recovered>>

(***************************************************************************)
(* force_rollback_tablet_related_txns                                      *)
(***************************************************************************)
call_force_rollback_tablet_related_txns(th) ==
    \E tablet_info \in {k.tablet_info : k \in universe.keys}, meta \in {TheMeta, NullMeta} :
        Invoke(th, [NoCall EXCEPT !.op = "force_rollback_tablet_related_txns",
                                  !.req = Req(0, 0, tablet_info), !.meta = meta, !.i = 0],
               "force_rollback_tablet_related_txns")

\* a variant of ForceRollbackRowsets that removes nothing from the store
ForceRollbackRowsets_None(txn_tablet_map, tablet_info, meta) == {}

\* the rowsets the loop removes from the store: those of the tablet's committed entries
ForceRollbackRowsets(txn_tablet_map, tablet_info, meta) ==
    {txn_tablet_map[key][tablet_info].rowset :
        key \in {k \in DOMAIN txn_tablet_map :
                    /\ tablet_info \in DOMAIN txn_tablet_map[k]
                    /\ txn_tablet_map[k][tablet_info].rowset # NullRowset
                    /\ meta # NullMeta}}

\* the TxnKeys the loop erases: those left with no tablet
ForceRollbackEmptied(txn_tablet_map, tablet_info) ==
    {k \in DOMAIN txn_tablet_map : DOMAIN txn_tablet_map[k] \ {tablet_info} = {}}

\* the shard's tablet map after the loop
ForceRollbackTabletMap(txn_tablet_map, tablet_info) ==
    [k \in DOMAIN txn_tablet_map \ ForceRollbackEmptied(txn_tablet_map, tablet_info) |->
        MapErase(txn_tablet_map[k], tablet_info)]

\* _clear_txn_partition_map_unlocked for every erased TxnKey
RECURSIVE ClearTxnPartitionMapAll(_, _)
ClearTxnPartitionMapAll(txn_partition_map, keys) ==
    IF keys = {} THEN txn_partition_map
    ELSE LET k == CHOOSE x \in keys : TRUE
         IN  ClearTxnPartitionMapAll(ClearTxnPartitionMap(txn_partition_map, k[2], k[1]),
                                     keys \ {k})

\* one turn of the loop over the shards, under shard i's write guard
force_rollback_tablet_related_txns(th) ==
    /\ pc[th] = "force_rollback_tablet_related_txns"
    /\ LET c == call[th]
           tablet_info == c.req.tablet_info
           txn_tablet_map == tablet_map[c.i]
       IN  /\ rms' = RmsRemoveAll(rms, tablet_info.tablet_uid,
                               ForceRollbackRowsets(txn_tablet_map, tablet_info, c.meta))
           /\ tablet_map' =
                 [tablet_map EXCEPT ![c.i] = ForceRollbackTabletMap(txn_tablet_map, tablet_info)]
           /\ partition_map' =
                 [partition_map EXCEPT ![c.i] =
                     ClearTxnPartitionMapAll(@, ForceRollbackEmptied(txn_tablet_map,
                                                                     tablet_info))]
           /\ IF c.i + 1 < txn_map_shard_size
              THEN /\ call' = [call EXCEPT ![th].i = c.i + 1]
                   /\ last_prepare' = NoPrepare
                   /\ last_publish' = NoPublish
                   /\ UNCHANGED <<pc, ret, last_failed>>
              ELSE Return(th, "void", 565)
    /\ UNCHANGED <<universe, writer_vars, calls_left, tablet_meta, rowset_version, now, txn_mutex, recovered>>

(***************************************************************************)
(* build_expire_txn_map                                                    *)
(***************************************************************************)
\* int64_t now = UnixSeconds(), read once; *expire_txn_map is empty on entry
call_build_expire_txn_map(th) ==
    Invoke(th, [NoCall EXCEPT !.op = "build_expire_txn_map", !.now = now, !.i = 0],
           "build_expire_txn_map")

\* a variant of Expired that lets an entry live one second longer
Expired_Later(at, creation_time) == at - creation_time > pending_data_expire_time_sec

\* difftime(now, creation_time) >= config::pending_data_expire_time_sec
Expired(at, creation_time) == at - creation_time >= pending_data_expire_time_sec

\* the order of the keys of a std::map<std::pair<int64_t, int64_t>, ...>
TxnKeyLess(a, b) == a[1] < b[1] \/ (a[1] = b[1] /\ a[2] < b[2])

\* (*expire_txn_map)[tablet_info].push_back(txn_id)
PushBack(expire_txn_map, tablet_info, txn_id) ==
    MapPut(expire_txn_map, tablet_info,
           IF tablet_info \in DOMAIN expire_txn_map
           THEN Append(expire_txn_map[tablet_info], txn_id)
           ELSE <<txn_id>>)

\* the inner loop over the tablets of one TxnKey; every tablet has a vector of
\* its own, so the order of the tablets does not show
RECURSIVE ExpireTablets(_, _, _, _, _)
ExpireTablets(load_info_map, tablets, txn_id, at, expire_txn_map) ==
    IF tablets = {} THEN expire_txn_map
    ELSE LET t == CHOOSE x \in tablets : TRUE
             pushed == IF Expired(at, load_info_map[t].creation_time)
                       THEN PushBack(expire_txn_map, t, txn_id)
                       ELSE expire_txn_map
         IN  ExpireTablets(load_info_map, tablets \ {t}, txn_id, at, pushed)

\* the loop over the TxnKeys of one shard, in the order of the map
RECURSIVE ExpireKeys(_, _, _, _)
ExpireKeys(txn_tablet_map, keys, at, expire_txn_map) ==
    IF keys = {} THEN expire_txn_map
    ELSE LET k == CHOOSE x \in keys : \A y \in keys \ {x} : TxnKeyLess(x, y)
         IN  ExpireKeys(txn_tablet_map, keys \ {k}, at,
                        ExpireTablets(txn_tablet_map[k], DOMAIN txn_tablet_map[k], k[2], at,
                                      expire_txn_map))

\* one turn of the loop over the shards, under shard i's read guard
build_expire_txn_map(th) ==
    /\ pc[th] = "build_expire_txn_map"
    /\ LET c == call[th]
           found == ExpireKeys(tablet_map[c.i], DOMAIN tablet_map[c.i], c.now,
                               c.expire_txn_map)
       IN  IF c.i + 1 < txn_map_shard_size
           THEN /\ call' = [call EXCEPT ![th].i = c.i + 1, ![th].expire_txn_map = found]
                /\ last_prepare' = NoPrepare
                /\ last_publish' = NoPublish
                /\ UNCHANGED <<pc, ret, last_failed>>
           ELSE /\ ret' = [ret EXCEPT ![th] = [NoRet EXCEPT !.op = c.op, !.status = "void",
                                                            !.line = 634,
                                                            !.expire_txn_map = found]]
                /\ pc' = [pc EXCEPT ![th] = "idle"]
                /\ call' = [call EXCEPT ![th] = NoCall]
                /\ last_prepare' = NoPrepare
                /\ last_publish' = NoPublish
                /\ last_failed' = NoCall
    /\ UNCHANGED <<universe, writer_vars, calls_left, data_vars>>

(***************************************************************************)
(* The slave-pull bookkeeping. Each of the three handlers runs as a whole  *)
(* under the write guard of the delta writer map shard of its transaction. *)
(***************************************************************************)
\* the arguments (transaction_id, tablet_id) of the three handlers
WriterReq(transaction_id, tablet_id) ==
    Req(0, transaction_id, TabletInfo(tablet_id, 0, "none"))

call_add_txn_tablet_delta_writer(th) ==
    \E transaction_id \in WriterTxns, tablet_id \in WriterTablets,
       delta_writer \in DeltaWriters :
        Invoke(th, [NoCall EXCEPT !.op = "add_txn_tablet_delta_writer",
                                  !.req = WriterReq(transaction_id, tablet_id),
                                  !.delta_writer = delta_writer],
               "add_txn_tablet_delta_writer")

\* a variant of AddDeltaWriter that starts the map of the transaction afresh
AddDeltaWriter_Fresh(txn_tablet_delta_writer, transaction_id, tablet_id, delta_writer) ==
    MapPut(txn_tablet_delta_writer, transaction_id, MapPut(EmptyMap, tablet_id, delta_writer))

\* txn_tablet_delta_writer_map[transaction_id][tablet_id] = delta_writer, after
\* an empty map has been put for a transaction that had none
AddDeltaWriter(txn_tablet_delta_writer, transaction_id, tablet_id, delta_writer) ==
    LET have == IF transaction_id \in DOMAIN txn_tablet_delta_writer
                THEN txn_tablet_delta_writer[transaction_id] ELSE EmptyMap
    IN  MapPut(txn_tablet_delta_writer, transaction_id, MapPut(have, tablet_id, delta_writer))

add_txn_tablet_delta_writer(th) ==
    /\ pc[th] = "add_txn_tablet_delta_writer"
    /\ LET c == call[th]
           shard == MapShardOf(c.req.transaction_id)
       IN  txn_tablet_delta_writer_map' =
               [txn_tablet_delta_writer_map EXCEPT ![shard] =
                   AddDeltaWriter(@, c.req.transaction_id, c.req.tablet_info.tablet_id,
                                  c.delta_writer)]
    /\ ReturnVoid(th)
    /\ UNCHANGED <<universe, data_vars, calls_left, notified>>

call_finish_slave_tablet_pull_rowset(th) ==
    \E transaction_id \in WriterTxns, tablet_id \in WriterTablets, node_id \in NodeIds,
       is_succeed \in BOOLEAN :
        Invoke(th, [NoCall EXCEPT !.op = "finish_slave_tablet_pull_rowset",
                                  !.req = WriterReq(transaction_id, tablet_id),
                                  !.node_id = node_id, !.is_succeed = is_succeed],
               "finish_slave_tablet_pull_rowset")

\* the DeltaWriter the two lookups find, or none
FindDeltaWriter(txn_tablet_delta_writer, transaction_id, tablet_id) ==
    IF transaction_id \notin DOMAIN txn_tablet_delta_writer THEN NoWriter
    ELSE IF tablet_id \notin DOMAIN txn_tablet_delta_writer[transaction_id] THEN NoWriter
    ELSE txn_tablet_delta_writer[transaction_id][tablet_id]

finish_slave_tablet_pull_rowset(th) ==
    /\ pc[th] = "finish_slave_tablet_pull_rowset"
    /\ LET c == call[th]
           delta_writer ==
               FindDeltaWriter(txn_tablet_delta_writer_map[MapShardOf(c.req.transaction_id)],
                               c.req.transaction_id, c.req.tablet_info.tablet_id)
       IN  IF delta_writer = NoWriter
           THEN /\ ReturnVoid(th)
                /\ UNCHANGED notified
           ELSE /\ notified' = [writer |-> delta_writer, node_id |-> c.node_id,
                                is_succeed |-> c.is_succeed,
                                parity |-> 1 - notified.parity]
                /\ ReturnVoid(th)
    /\ UNCHANGED <<universe, data_vars, calls_left, txn_tablet_delta_writer_map>>

call_clear_txn_tablet_delta_writer(th) ==
    \E transaction_id \in WriterTxns :
        Invoke(th, [NoCall EXCEPT !.op = "clear_txn_tablet_delta_writer",
                                  !.req = WriterReq(transaction_id, 0)],
               "clear_txn_tablet_delta_writer")

clear_txn_tablet_delta_writer(th) ==
    /\ pc[th] = "clear_txn_tablet_delta_writer"
    /\ txn_tablet_delta_writer_map' =
          [txn_tablet_delta_writer_map EXCEPT ![MapShardOf(call[th].req.transaction_id)] =
              MapErase(@, call[th].req.transaction_id)]
    /\ ReturnVoid(th)
    /\ UNCHANGED <<universe, data_vars, calls_left, notified>>

(***************************************************************************)
(* The clock.                                                              *)
(***************************************************************************)
Tick ==
    /\ now < universe.clock
    /\ now' = now + 1
    /\ UNCHANGED <<universe, writer_vars, calls_left, tablet_meta, tablet_map, partition_map, rms, rowset_version, txn_mutex,
                   pc, call, ret, recovered, last_publish, last_prepare, last_failed>>

Next ==
    \/ \E th \in Threads : call_prepare_txn(th)
    \/ \E th \in Threads : prepare_txn(th)
    \/ \E th \in Threads : call_commit_txn(th)
    \/ \E th \in Threads : commit_txn(th)
    \/ \E th \in Threads : commit_check(th)
    \/ \E th \in Threads : commit_save(th)
    \/ \E th \in Threads : commit_upsert(th)
    \/ \E th \in Threads : call_publish_txn(th)
    \/ \E th \in Threads : publish_txn(th)
    \/ \E th \in Threads : publish_lookup(th)
    \/ \E th \in Threads : publish_visible(th)
    \/ \E th \in Threads : publish_save(th)
    \/ \E th \in Threads : publish_erase(th)
    \/ \E th \in Threads : publish_bitmap(th)
    \/ \E th \in Threads : publish_segments(th)
    \/ \E th \in Threads : call_rollback_txn(th)
    \/ \E th \in Threads : rollback_txn(th)
    \/ \E th \in Threads : call_delete_txn(th)
    \/ \E th \in Threads : delete_txn(th)
    \/ \E th \in Threads : call_force_rollback_tablet_related_txns(th)
    \/ \E th \in Threads : force_rollback_tablet_related_txns(th)
    \/ \E th \in Threads : call_build_expire_txn_map(th)
    \/ \E th \in Threads : build_expire_txn_map(th)
    \/ Tick

Spec == Init /\ [][Next]_vars

(***************************************************************************)
(* Two threads that call prepare_txn, commit_txn, publish_txn,             *)
(* rollback_txn and delete_txn, each with the requests the universe gives  *)
(* it.                                                                     *)
(***************************************************************************)
ConcThreads == {"t1", "t2"}

ConcUniverses ==
    { \* two tablets under one TxnKey: one map shard, one per-txn mutex
      [keys |-> {K1, K3}, loads |-> {L1},
       rowsets |-> (K1 :> {"R1"} @@ K3 :> {"R3"}), clock |-> 0,
       versions |-> {<<1, 1>>}, calls |-> MaxCalls, owner |-> ("t1" :> {K1} @@ "t2" :> {K3})],
      \* two transactions in two map shards, with two per-txn mutexes
      [keys |-> {K1, K5}, loads |-> {L1},
       rowsets |-> (K1 :> {"R1"} @@ K5 :> {"R3"}), clock |-> 0,
       versions |-> {<<1, 1>>}, calls |-> MaxCalls, owner |-> ("t1" :> {K1} @@ "t2" :> {K5})],
      \* both threads on one request
      [keys |-> {K1}, loads |-> {L1},
       rowsets |-> (K1 :> {"R1"}), clock |-> 0,
       versions |-> {<<1, 1>>}, calls |-> MaxCalls, owner |-> ("t1" :> {K1} @@ "t2" :> {K1})] }

InitConc == InitWith(ConcThreads, ConcUniverses)

NextConc ==
    \/ \E th \in ConcThreads : call_prepare_txn(th)
    \/ \E th \in ConcThreads : prepare_txn(th)
    \/ \E th \in ConcThreads : call_commit_txn(th)
    \/ \E th \in ConcThreads : commit_txn(th)
    \/ \E th \in ConcThreads : commit_check(th)
    \/ \E th \in ConcThreads : commit_save(th)
    \/ \E th \in ConcThreads : commit_upsert(th)
    \/ \E th \in ConcThreads : call_publish_txn(th)
    \/ \E th \in ConcThreads : publish_txn(th)
    \/ \E th \in ConcThreads : publish_lookup(th)
    \/ \E th \in ConcThreads : publish_visible(th)
    \/ \E th \in ConcThreads : publish_save(th)
    \/ \E th \in ConcThreads : publish_erase(th)
    \/ \E th \in ConcThreads : publish_bitmap(th)
    \/ \E th \in ConcThreads : call_rollback_txn(th)
    \/ \E th \in ConcThreads : rollback_txn(th)
    \/ \E th \in ConcThreads : call_delete_txn(th)
    \/ \E th \in ConcThreads : delete_txn(th)

SpecConc == InitConc /\ [][NextConc]_vars

\* the steps of a handler that thread th has called, but for the step that takes
\* the per-txn mutex
BodyStep(th) ==
    \/ prepare_txn(th)
    \/ commit_check(th) \/ commit_save(th) \/ commit_upsert(th)
    \/ publish_lookup(th) \/ publish_visible(th) \/ publish_save(th)
    \/ publish_erase(th) \/ publish_bitmap(th)
    \/ rollback_txn(th)
    \/ delete_txn(th)

\* the first step of commit_txn and publish_txn, which waits for the per-txn mutex
LockStep(th) == commit_txn(th) \/ publish_txn(th)

\* every thread that is in a handler is scheduled again, and a thread that waits
\* for a mutex that is free again and again gets it; no thread has to call
FairConc ==
    \A th \in ConcThreads : WF_vars(BodyStep(th)) /\ SF_vars(LockStep(th))

SpecConcFair == InitConc /\ [][NextConc]_vars /\ FairConc

(***************************************************************************)
(* One thread that prepares, commits and publishes a unique-key rowset of  *)
(* the merge-on-write tablet: a rowset of one segment that holds any set   *)
(* of the keys 1..MaxKeys, or of three segments that each hold any set of  *)
(* the keys 1 and 2.                                                       *)
(***************************************************************************)
\* the elements of a set of numbers in ascending order
RECURSIVE SortedSeq(_)
SortedSeq(S) ==
    IF S = {} THEN << >>
    ELSE LET m == CHOOSE x \in S : \A y \in S : x <= y
         IN  <<m>> \o SortedSeq(S \ {m})

SegmentUniverses ==
    { [keys |-> {K6}, loads |-> {L1}, rowsets |-> (K6 :> {"R4"}), clock |-> 0,
       versions |-> {<<1, 1>>}, segments |-> << SortedSeq(S) >>] :
        S \in SUBSET (1..MaxKeys) }
    \cup
    { [keys |-> {K6}, loads |-> {L1}, rowsets |-> (K6 :> {"R4"}), clock |-> 0,
       versions |-> Versions, segments |-> [j \in 1..3 |-> SortedSeq(f[j])]] :
        f \in [1..3 -> SUBSET {1, 2}] }

InitSegments == InitWith({"t1"}, SegmentUniverses)

NextSegments ==
    \/ call_prepare_txn("t1")
    \/ prepare_txn("t1")
    \/ call_commit_txn("t1")
    \/ commit_txn("t1")
    \/ commit_check("t1")
    \/ commit_save("t1")
    \/ commit_upsert("t1")
    \/ call_publish_txn("t1")
    \/ publish_txn("t1")
    \/ publish_lookup("t1")
    \/ publish_visible("t1")
    \/ publish_save("t1")
    \/ publish_erase("t1")
    \/ publish_bitmap("t1")
    \/ publish_segments("t1")

SpecSegments == InitSegments /\ [][NextSegments]_vars

(***************************************************************************)
(* One thread that calls prepare_txn, commit_txn, rollback_txn and         *)
(* delete_txn only.                                                        *)
(***************************************************************************)
NextLoad ==
    \/ call_prepare_txn("t1")
    \/ prepare_txn("t1")
    \/ call_commit_txn("t1")
    \/ commit_txn("t1")
    \/ commit_check("t1")
    \/ commit_save("t1")
    \/ commit_upsert("t1")
    \/ call_rollback_txn("t1")
    \/ rollback_txn("t1")
    \/ call_delete_txn("t1")
    \/ delete_txn("t1")

SpecLoad == Init /\ [][NextLoad]_vars

(***************************************************************************)
(* A thread that prepares and commits loads of one request, with two load  *)
(* ids, and a thread that publishes the request.                           *)
(***************************************************************************)
ReplaceUniverse ==
    [keys |-> {K1}, loads |-> {L1, L2}, rowsets |-> (K1 :> {"R1"}), clock |-> 0,
     versions |-> {<<1, 1>>}, calls |-> MaxCalls]

InitReplace == InitWith({"t1", "t2"}, {ReplaceUniverse})

NextReplace ==
    \/ call_prepare_txn("t1")
    \/ prepare_txn("t1")
    \/ call_commit_txn("t1")
    \/ commit_txn("t1")
    \/ commit_check("t1")
    \/ commit_save("t1")
    \/ commit_upsert("t1")
    \/ call_publish_txn("t2")
    \/ publish_txn("t2")
    \/ publish_lookup("t2")
    \/ publish_visible("t2")
    \/ publish_save("t2")
    \/ publish_erase("t2")
    \/ publish_bitmap("t2")

SpecReplace == InitReplace /\ [][NextReplace]_vars

(***************************************************************************)
(* The slave-pull bookkeeping run by two threads: one registers and clears *)
(* delta writers, and prepares a transaction in the index; the other       *)
(* reports the rowsets the slaves have pulled.                             *)
(***************************************************************************)
WriterThreads == {"t1", "t2"}

WriterUniverse ==
    [keys |-> {K1}, loads |-> {L1}, rowsets |-> (K1 :> {"R1"}), clock |-> 0,
     versions |-> {<<1, 1>>}]

InitWriter == InitWith(WriterThreads, {WriterUniverse})

NextWriter ==
    \/ call_add_txn_tablet_delta_writer("t1")
    \/ add_txn_tablet_delta_writer("t1")
    \/ call_clear_txn_tablet_delta_writer("t1")
    \/ clear_txn_tablet_delta_writer("t1")
    \/ call_prepare_txn("t1")
    \/ prepare_txn("t1")
    \/ call_finish_slave_tablet_pull_rowset("t2")
    \/ finish_slave_tablet_pull_rowset("t2")

SpecWriter == InitWriter /\ [][NextWriter]_vars

(***************************************************************************)
(* What the claims speak of.                                               *)
(***************************************************************************)
PartitionIds == {k.partition_id : k \in UNION {u.keys : u \in Universes}}
TransactionIds == {k.transaction_id : k \in UNION {u.keys : u \in Universes}}

\* TxnKey (p, t) is present in tablet_map
InTabletMap(p, t) == \E s \in MapShards : <<p, t>> \in DOMAIN tablet_map[s]

\* partition_map[t], as get_partition_ids reads it
PartitionsOf(t) ==
    IF t \in DOMAIN partition_map[MapShardOf(t)] THEN partition_map[MapShardOf(t)][t] ELSE {}

\* the index entries: (shard, TxnKey, TabletInfo)
IndexEntries ==
    {<<s, key, ti>> \in MapShards \X (PartitionIds \X TransactionIds) \X Tablets :
        key \in DOMAIN tablet_map[s] /\ ti \in DOMAIN tablet_map[s][key]}

EntryAt(e) == tablet_map[e[1]][e[2]][e[3]]

\* the request's entry in the index, in this state
Present(req) == HasEntry(tablet_map[MapShardOf(req.transaction_id)], req)
Entry(req) == EntryOf(tablet_map[MapShardOf(req.transaction_id)], req)
Committed(req) == Present(req) /\ Entry(req).rowset # NullRowset

\* the store's value for a rowset of a tablet
IsStored(tablet_info, rowset) == <<tablet_info.tablet_uid, RowsetIdOf(rowset)>> \in DOMAIN rms
Stored(tablet_info, rowset) == rms[<<tablet_info.tablet_uid, RowsetIdOf(rowset)>>]

\* C1: in every state (every shard guard section is one step, so no state has a
\* write guard held), partition_map[t] is exactly the set of partition ids p with
\* TxnKey (p, t) in tablet_map, and no other transaction id is a key of a
\* partition map.
C1_PartitionMapMatchesTabletMap ==
    /\ \A t \in TransactionIds : PartitionsOf(t) = {p \in PartitionIds : InTabletMap(p, t)}
    /\ \A s \in MapShards : \A t \in DOMAIN partition_map[s] :
          /\ MapShardOf(t) = s
          /\ partition_map[s][t] # {}

\* a transaction that had two partitions has lost one of them to delete_txn
C1_Witness ==
    /\ \E th \in Threads : ret[th].op = "delete_txn" /\ ret[th].status = "OK"
    /\ PartitionsOf(1) = {2}
    /\ ~InTabletMap(1, 1) /\ InTabletMap(2, 1)

\* C2: every index entry that is committed, and was committed with
\* is_recovery = false, has a value in the RowsetMetaStore under (tablet_uid,
\* rowset_id of its rowset), for as long as it is in the index.
C2_CommittedEntryIsStored ==
    \A e \in IndexEntries :
        (EntryAt(e).rowset # NullRowset /\ EntryAt(e).rowset \notin recovered)
            => IsStored(e[3], EntryAt(e).rowset)

\* a committed entry whose stored meta a failed publish has left in place
C2_Witness ==
    /\ \E th \in Threads : ret[th].op = "publish_txn"
                           /\ ret[th].status = "OLAP_ERR_ROWSET_SAVE_FAILED"
    /\ Committed(K1) /\ Entry(K1).rowset \notin recovered
    /\ IsStored(T1, Entry(K1).rowset)

\* C3: in the state right after publish_txn's index update there is no entry for
\* (TxnKey, TabletInfo), the TxnKey is gone when no other tablet is under it, and
\* the store's value under (tablet_uid, rowset_id) carries the published version.
C3_PublishedEntryIsGone ==
    \A th \in Threads :
        pc[th] = "publish_bitmap" =>
            LET c == call[th]
                txn_tablet_map == tablet_map[MapShardOf(c.req.transaction_id)]
            IN  /\ ~Present(c.req)
                /\ TxnKey(c.req) \in DOMAIN txn_tablet_map
                      => DOMAIN txn_tablet_map[TxnKey(c.req)] # {}
                /\ IsStored(c.req.tablet_info, c.rowset_ptr)
                /\ Stored(c.req.tablet_info, c.rowset_ptr).rowset_id = RowsetIdOf(c.rowset_ptr)
                /\ Stored(c.req.tablet_info, c.rowset_ptr).start_version = c.version[1]
                /\ Stored(c.req.tablet_info, c.rowset_ptr).end_version = c.version[2]

\* the happy path prepare; commit(R1); publish(v): the index is empty and the
\* store holds one entry, with version v
C3_Witness ==
    \E th \in Threads :
        /\ pc[th] = "publish_bitmap"
        /\ call[th].req = K1 /\ call[th].rowset_ptr = "R1"
        /\ \A s \in MapShards : DOMAIN tablet_map[s] = {} /\ DOMAIN partition_map[s] = {}
        /\ DOMAIN rms = {<<"U1", 101>>}
        /\ rms[<<"U1", 101>>].start_version = call[th].version[1]

\* C4: when no handler is running, no entry of tablet_map holds a rowset whose
\* version.start is greater than 0.
C4_NoPublishedRowsetInIndex ==
    (\A th \in Threads : pc[th] = "idle") =>
        \A e \in IndexEntries :
            EntryAt(e).rowset # NullRowset => rowset_version[EntryAt(e).rowset][1] = 0

\* C5 as claimed: an entry that is committed and stays in the index stays committed.
C5_CommittedStaysCommitted ==
    [][\A req \in universe.keys :
          (Committed(req) /\ Present(req)') => Committed(req)']_vars

\* C5 as amended: an entry that is committed and stays in the index stays
\* committed, unless the step is a prepare_txn for it with another load id.
C5_CommittedStaysCommittedUnlessOtherLoad ==
    [][\A req \in universe.keys :
          (Committed(req) /\ Present(req)' /\ ~Committed(req)') =>
              \E th \in Threads :
                  /\ pc[th] = "prepare_txn" /\ pc'[th] = "idle"
                  /\ call[th].req = req
                  /\ call[th].load_id # Entry(req).load_id]_vars

\* a prepare_txn with the entry's load id has returned and the entry is committed
C5_Witness ==
    \E th \in Threads :
        /\ ret[th].op = "prepare_txn" /\ ret[th].status = "OK"
        /\ last_prepare.req = K1 /\ Committed(K1)
        /\ last_prepare.load_id = Entry(K1).load_id

\* thread th takes a step of a commit_txn for req, whose entry is committed with
\* the call's load id (when same_load) and with a rowset whose id is (when
\* same_id) or is not the id of the call's rowset
CommitFinds(th, req, same_load, same_id) ==
    /\ call[th].op = "commit_txn" /\ call[th].req = req
    /\ pc'[th] # pc[th]
    /\ call[th].rowset # NullRowset
    /\ Committed(req)
    /\ same_load => Entry(req).load_id = call[th].load_id
    /\ (RowsetIdOf(Entry(req).rowset) = RowsetIdOf(call[th].rowset)) <=> same_id

\* C6: commit_txn on an entry committed with the same load id and the same rowset
\* id writes nothing to the store, leaves tablet_map and partition_map as they
\* are, and returns ok from its lookup.
C6_DuplicateCommitIsNoOp ==
    [][\A th \in Threads : \A req \in universe.keys :
          CommitFinds(th, req, TRUE, TRUE) =>
              /\ rms' = rms
              /\ tablet_map' = tablet_map /\ partition_map' = partition_map
              /\ pc[th] = "commit_check" => (pc'[th] = "idle" /\ ret'[th].status = "OK")]_vars

\* a duplicate commit has returned ok, the entry and its stored meta in place
C6_Witness ==
    \E th \in Threads :
        /\ ret[th].op = "commit_txn" /\ ret[th].status = "OK" /\ ret[th].line = 211
        /\ Committed(K1) /\ IsStored(T1, Entry(K1).rowset)

\* C7: commit_txn with the entry's load id and a rowset of another id than the
\* committed one returns AlreadyExists from its lookup, writes nothing to the
\* store, and the entry is as it was.
C7_ConflictingCommitIsRefused ==
    [][\A th \in Threads : \A req \in universe.keys :
          CommitFinds(th, req, TRUE, FALSE) =>
              /\ rms' = rms
              /\ Present(req)' /\ Entry(req)' = Entry(req)
              /\ pc[th] = "commit_check" =>
                    /\ pc'[th] = "idle"
                    /\ ret'[th].status = "OLAP_ERR_PUSH_TRANSACTION_ALREADY_EXIST"]_vars

\* a conflicting commit has been refused and the entry holds R1
C7_Witness ==
    \E th \in Threads :
        /\ ret[th].status = "OLAP_ERR_PUSH_TRANSACTION_ALREADY_EXIST"
        /\ Committed(K1) /\ Entry(K1).rowset = "R1"

\* C8 as claimed: a commit_txn whose entry is committed with a rowset of another
\* id never replaces the stored rowset and returns AlreadyExists, whatever its
\* load id.
C8_OtherRowsetIsRefusedWhateverLoad ==
    [][\A th \in Threads : \A req \in universe.keys :
          CommitFinds(th, req, FALSE, FALSE) =>
              /\ Committed(req)'
              /\ Entry(req)'.rowset = Entry(req).rowset
              /\ pc'[th] = "idle" =>
                    ret'[th].status = "OLAP_ERR_PUSH_TRANSACTION_ALREADY_EXIST"]_vars

\* C8 as amended: a commit_txn that carries the load id of an entry committed with
\* a rowset of another id never replaces the stored rowset and returns
\* AlreadyExists.
C8_OtherRowsetIsRefusedForSameLoad ==
    [][\A th \in Threads : \A req \in universe.keys :
          CommitFinds(th, req, TRUE, FALSE) =>
              /\ Committed(req)'
              /\ Entry(req)'.rowset = Entry(req).rowset
              /\ pc'[th] = "idle" =>
                    ret'[th].status = "OLAP_ERR_PUSH_TRANSACTION_ALREADY_EXIST"]_vars

\* the commit of R2 has been refused while the entry holds R1 with load id L1
C8_Witness ==
    \E th \in Threads :
        /\ ret[th].op = "commit_txn" /\ ret[th].line = 224
        /\ Committed(K1) /\ Entry(K1).rowset = "R1" /\ Entry(K1).load_id = L1
        /\ universe.loads = {L1, L2}

\* the prepare_txn of thread th returns in this step, and repeats the arguments
\* of a prepare_txn that has just returned ok
SecondPrepareReturns(th, req) ==
    /\ pc[th] = "prepare_txn" /\ pc'[th] = "idle"
    /\ call[th].req = req
    /\ last_prepare.req = req /\ last_prepare.load_id = call[th].load_id

\* C9 as claimed: the second of two prepare_txn calls with the same arguments
\* leaves tablet_map (load_id, rowset, creation_time) and partition_map as they are.
C9_SecondPrepareChangesNothing ==
    [][\A th \in Threads : \A req \in universe.keys :
          SecondPrepareReturns(th, req) =>
              tablet_map' = tablet_map /\ partition_map' = partition_map]_vars

\* C9 as amended: the second call leaves partition_map, every other entry, and the
\* entry's load_id and rowset as they are; when it inserts again (it returns from
\* the end of prepare_txn) the entry's creation_time is the time of the second
\* call, and otherwise the entry is as it was.
C9_SecondPrepareKeepsAllButCreationTime ==
    [][\A th \in Threads : \A req \in universe.keys :
          SecondPrepareReturns(th, req) =>
              LET shard == MapShardOf(req.transaction_id)
              IN  /\ partition_map' = partition_map
                  /\ Present(req) /\ Present(req)'
                  /\ Entry(req)'.load_id = Entry(req).load_id
                  /\ Entry(req)'.rowset = Entry(req).rowset
                  /\ tablet_map' =
                        [tablet_map EXCEPT ![shard][TxnKey(req)][req.tablet_info].creation_time
                                              = Entry(req)'.creation_time]
                  /\ Entry(req)'.creation_time =
                        IF ret'[th].line = 168 THEN now ELSE Entry(req).creation_time]_vars

\* a second prepare_txn has inserted again, after the clock has advanced
C9_Witness ==
    \E th \in Threads :
        /\ ret[th].op = "prepare_txn" /\ ret[th].line = 168
        /\ last_prepare.second /\ last_prepare.req = K1
        /\ now > 0 /\ Entry(K1).creation_time = now

\* C10: prepare_txn on an entry committed with the same load id returns ok and
\* changes nothing in tablet_map and partition_map, however many transactions
\* the shard's partition map holds.
C10_PrepareOfCommittedIsNoOp ==
    [][\A th \in Threads : \A req \in universe.keys :
          (/\ pc[th] = "prepare_txn" /\ pc'[th] = "idle"
           /\ call[th].req = req
           /\ Committed(req)
           /\ Entry(req).load_id = call[th].load_id) =>
              /\ ret'[th].status = "OK"
              /\ tablet_map' = tablet_map /\ partition_map' = partition_map]_vars

\* a prepare_txn of a committed entry has returned ok in a shard over the cap
C10_Witness ==
    \E th \in Threads :
        /\ ret[th].op = "prepare_txn" /\ ret[th].status = "OK" /\ ret[th].line = 144
        /\ Committed(K1)
        /\ Cardinality(DOMAIN partition_map[MapShardOf(1)])
              > max_runnings_transactions_per_txn_map

\* C11: no prepare_txn that adds a transaction id to a shard's partition_map
\* leaves that partition_map with more transaction ids than the cap.
C11_PrepareKeepsShardWithinCap ==
    [][\A th \in Threads :
          (pc[th] = "prepare_txn" /\ pc'[th] = "idle") =>
              LET shard == MapShardOf(call[th].req.transaction_id)
              IN  Cardinality(DOMAIN partition_map'[shard])
                     > Cardinality(DOMAIN partition_map[shard])
                  => Cardinality(DOMAIN partition_map'[shard])
                        <= max_runnings_transactions_per_txn_map]_vars

\* the rollback_txn of thread th for req returns in this step
RollbackReturns(th, req) ==
    /\ pc[th] = "rollback_txn" /\ pc'[th] = "idle"
    /\ call[th].req = req

\* C12: rollback_txn of a committed entry returns AlreadyCommitted and leaves
\* tablet_map, partition_map and the store as they are.
C12_RollbackOfCommittedIsRefused ==
    [][\A th \in Threads : \A req \in universe.keys :
          (RollbackReturns(th, req) /\ Committed(req)) =>
              /\ ret'[th].status = "OLAP_ERR_TRANSACTION_ALREADY_COMMITTED"
              /\ tablet_map' = tablet_map /\ partition_map' = partition_map
              /\ rms' = rms]_vars

\* a rollback_txn of K1 has been refused, K1 committed and its meta stored
C12_Witness ==
    \E th \in Threads :
        /\ ret[th].op = "rollback_txn" /\ ret[th].req = K1
        /\ ret[th].status = "OLAP_ERR_TRANSACTION_ALREADY_COMMITTED"
        /\ Committed(K1) /\ IsStored(T1, Entry(K1).rowset)

\* the index entries other than the one of req
OtherEntries(req) ==
    IndexEntries \ {<<MapShardOf(req.transaction_id), TxnKey(req), req.tablet_info>>}

\* C13: rollback_txn of an uncommitted entry returns ok and removes that entry
\* and no other, with the TxnKey and its partition_map pair when no tablet is
\* left under it; rollback_txn of an absent entry returns ok and changes
\* nothing. The store is never written.
C13_RollbackRemovesUncommitted ==
    [][\A th \in Threads : \A req \in universe.keys :
          (RollbackReturns(th, req) /\ ~Committed(req)) =>
              /\ ret'[th].status = "OK"
              /\ rms' = rms
              /\ ~Present(req)'
              /\ IndexEntries' = OtherEntries(req)
              /\ \A e \in OtherEntries(req) : EntryAt(e)' = EntryAt(e)
              /\ ~Present(req) =>
                    (tablet_map' = tablet_map /\ partition_map' = partition_map)
              /\ InTabletMap(req.partition_id, req.transaction_id)'
                    <=> \E e \in OtherEntries(req) : e[2] = TxnKey(req)
              /\ req.partition_id \in PartitionsOf(req.transaction_id)'
                    <=> \E e \in OtherEntries(req) : e[2] = TxnKey(req)]_vars

\* a rollback_txn has removed the uncommitted entry of K1 and left the entry of
\* the other tablet under the same TxnKey
C13_Witness ==
    \E th \in Threads :
        /\ ret[th].op = "rollback_txn" /\ ret[th].req = K1 /\ ret[th].status = "OK"
        /\ ~Present(K1) /\ Present(K3)
        /\ PartitionsOf(1) = {1}

\* the delete_txn of thread th for req returns in this step
DeleteReturns(th, req) ==
    /\ pc[th] = "delete_txn" /\ pc'[th] = "idle"
    /\ call[th].req = req

\* C14 as claimed: a delete_txn for the request of a publish_txn that has just
\* returned ok returns AlreadyCommitted and leaves the store as it is.
C14_DeleteAfterPublishIsRefused ==
    [][\A th \in Threads : \A req \in universe.keys :
          (DeleteReturns(th, req) /\ last_publish = req) =>
              /\ ret'[th].status = "OLAP_ERR_TRANSACTION_ALREADY_COMMITTED"
              /\ rms' = rms]_vars

\* C14 as amended: a delete_txn for the request of a publish_txn that has just
\* returned ok finds no entry; it returns TransactionNotExist when the TxnKey is
\* gone and ok when other tablets are left under it, and leaves the store,
\* tablet_map and partition_map as they are.
C14_DeleteAfterPublishFindsNoEntry ==
    [][\A th \in Threads : \A req \in universe.keys :
          (DeleteReturns(th, req) /\ last_publish = req) =>
              /\ ~Present(req)
              /\ ret'[th].status =
                    IF InTabletMap(req.partition_id, req.transaction_id)
                    THEN "OK" ELSE "OLAP_ERR_TRANSACTION_NOT_EXIST"
              /\ rms' = rms
              /\ tablet_map' = tablet_map /\ partition_map' = partition_map]_vars

\* a delete_txn of K1 has found nothing while the store holds the published meta
C14_Witness ==
    \E th \in Threads :
        /\ ret[th].op = "delete_txn" /\ ret[th].req = K1
        /\ ret[th].status = "OLAP_ERR_TRANSACTION_NOT_EXIST"
        /\ ~Present(K1)
        /\ IsStored(T1, "R1") /\ Stored(T1, "R1").start_version > 0
        /\ rowset_version["R1"][1] > 0

\* C15 as claimed: delete_txn of a committed entry whose rowset has a version
\* start above 0 returns AlreadyCommitted, leaves the store as it is and keeps
\* the entry.
C15_DeleteOfPublishedIsRefused ==
    [][\A th \in Threads : \A req \in universe.keys :
          (/\ DeleteReturns(th, req) /\ Committed(req)
           /\ rowset_version[Entry(req).rowset][1] > 0) =>
              /\ ret'[th].status = "OLAP_ERR_TRANSACTION_ALREADY_COMMITTED"
              /\ rms' = rms
              /\ Present(req)' /\ Entry(req)' = Entry(req)]_vars

\* C15 as amended: so it is when meta is not null; with a null meta the entry is
\* erased, the call returns ok, and the store is as it was.
C15_DeleteOfPublishedIsRefusedWithMeta ==
    [][\A th \in Threads : \A req \in universe.keys :
          (/\ DeleteReturns(th, req) /\ Committed(req)
           /\ rowset_version[Entry(req).rowset][1] > 0) =>
              /\ rms' = rms
              /\ IF call[th].meta # NullMeta
                 THEN /\ ret'[th].status = "OLAP_ERR_TRANSACTION_ALREADY_COMMITTED"
                      /\ Present(req)' /\ Entry(req)' = Entry(req)
                      /\ tablet_map' = tablet_map /\ partition_map' = partition_map
                 ELSE /\ ret'[th].status = "OK"
                      /\ ~Present(req)']_vars

\* a delete_txn of K1 has been refused, K1 holding a rowset with a version
C15_Witness ==
    \E th \in Threads :
        /\ ret[th].op = "delete_txn" /\ ret[th].req = K1
        /\ ret[th].status = "OLAP_ERR_TRANSACTION_ALREADY_COMMITTED"
        /\ Committed(K1) /\ rowset_version[Entry(K1).rowset][1] > 0

\* the store after delete_txn has removed the meta of the rowset of req's entry
MetaRemoved(req) ==
    LET key == <<req.tablet_info.tablet_uid, RowsetIdOf(Entry(req).rowset)>>
    IN  /\ DOMAIN rms' = DOMAIN rms \ {key}
        /\ \A k \in DOMAIN rms' : rms'[k] = rms[k]

C17_DeleteOfAbsentIsNotExist ==
    [][\A th \in Threads : \A req \in universe.keys :
          (DeleteReturns(th, req) /\ ~Present(req)) =>
              /\ ret'[th].status = "OLAP_ERR_TRANSACTION_NOT_EXIST"
              /\ tablet_map' = tablet_map /\ partition_map' = partition_map
              /\ rms' = rms]_vars

\* C17 as amended: delete_txn returns TransactionNotExist when the TxnKey is
\* absent and ok when the TxnKey is present without the tablet; in both cases it
\* changes neither the index nor the store.
C17_DeleteOfAbsentChangesNothing ==
    [][\A th \in Threads : \A req \in universe.keys :
          (DeleteReturns(th, req) /\ ~Present(req)) =>
              /\ InTabletMap(req.partition_id, req.transaction_id)
                    => ret'[th].status = "OK" /\ ret'[th].line = 502
              /\ ~InTabletMap(req.partition_id, req.transaction_id)
                    => ret'[th].status = "OLAP_ERR_TRANSACTION_NOT_EXIST"
              /\ ret'[th].unused = << >>
              /\ tablet_map' = tablet_map /\ partition_map' = partition_map
              /\ rms' = rms]_vars

\* a delete_txn of K1 has found no TxnKey in an index that never held K1's rowset
C17_Witness ==
    \E th \in Threads :
        /\ ret[th].op = "delete_txn" /\ ret[th].req = K1
        /\ ret[th].status = "OLAP_ERR_TRANSACTION_NOT_EXIST"
        /\ ~InTabletMap(1, 1)
        /\ rms = EmptyMap /\ rowset_version["R1"][1] = 0

\* thread th takes a step of its call of op for req
StepOf(th, op, req) ==
    /\ call[th].op = op /\ call[th].req = req
    /\ pc'[th] # pc[th]

\* C18: publish_txn of a request with no entry, or with an uncommitted entry,
\* returns TransactionNotExist right after the lookup; no step of the call writes
\* to the store, changes a rowset's version or changes tablet_map or partition_map.
C18_PublishOfUncommittedIsNotExist ==
    [][\A th \in Threads : \A req \in universe.keys :
          (/\ StepOf(th, "publish_txn", req) /\ ~Committed(req)
           /\ pc[th] \in {"publish_txn", "publish_lookup"}) =>
              /\ rms' = rms /\ rowset_version' = rowset_version
              /\ tablet_map' = tablet_map /\ partition_map' = partition_map
              /\ pc[th] = "publish_txn" => pc'[th] = "publish_lookup"
              /\ pc[th] = "publish_lookup" => pc'[th] = "idle"
              /\ pc'[th] = "idle" => ret'[th].status = "OLAP_ERR_TRANSACTION_NOT_EXIST"]_vars

\* a publish_txn of K1 has been refused, K1 prepared and not committed
C18_Witness ==
    \E th \in Threads :
        /\ ret[th].op = "publish_txn" /\ ret[th].req = K1
        /\ ret[th].status = "OLAP_ERR_TRANSACTION_NOT_EXIST"
        /\ Present(K1) /\ ~Committed(K1)

\* C19: a commit_txn returns SaveFailed exactly when its store write fails, which
\* happens only outside recovery; no step of the call up to and including the
\* failed write changes tablet_map or partition_map, and the store is as it was.
C19_FailedCommitSaveChangesNothing ==
    [][\A th \in Threads : \A req \in universe.keys :
          StepOf(th, "commit_txn", req) =>
              /\ pc[th] \in {"commit_txn", "commit_check", "commit_save"} =>
                    tablet_map' = tablet_map /\ partition_map' = partition_map
              /\ (pc[th] = "commit_save" /\ pc'[th] = "idle") =>
                    /\ ret'[th].status = "OLAP_ERR_ROWSET_SAVE_FAILED"
                    /\ ~call[th].is_recovery
                    /\ rms' = rms
              /\ (pc'[th] = "idle" /\ ret'[th].status = "OLAP_ERR_ROWSET_SAVE_FAILED") =>
                    pc[th] = "commit_save"]_vars

\* a commit_txn of K1 has failed to save, K1 still prepared and not committed
C19_Witness ==
    \E th \in Threads :
        /\ ret[th].op = "commit_txn" /\ ret[th].req = K1
        /\ ret[th].status = "OLAP_ERR_ROWSET_SAVE_FAILED"
        /\ Present(K1) /\ ~Committed(K1)
        /\ rms = EmptyMap

\* C20: a publish_txn returns SaveFailed exactly when its store write fails; the
\* entry, partition_map and the store are then as they were before the call, and
\* the rowset of the entry has the requested version in memory.
C20_FailedPublishSaveKeepsVersion ==
    [][\A th \in Threads : \A req \in universe.keys :
          StepOf(th, "publish_txn", req) =>
              /\ pc[th] \in {"publish_txn", "publish_lookup", "publish_visible", "publish_save"} =>
                    tablet_map' = tablet_map /\ partition_map' = partition_map
              /\ pc[th] \in {"publish_txn", "publish_lookup", "publish_visible"} => rms' = rms
              /\ (pc[th] = "publish_save" /\ pc'[th] = "idle") =>
                    /\ ret'[th].status = "OLAP_ERR_ROWSET_SAVE_FAILED"
                    /\ rms' = rms
                    /\ Committed(req) /\ Entry(req).rowset = call[th].rowset_ptr
                    /\ rowset_version'[Entry(req).rowset] = call[th].version
              /\ (pc'[th] = "idle" /\ ret'[th].status = "OLAP_ERR_ROWSET_SAVE_FAILED") =>
                    pc[th] = "publish_save"]_vars

\* a publish_txn of K1 has failed to save: R1 has a version in memory, none in the store
C20_Witness ==
    \E th \in Threads :
        /\ ret[th].op = "publish_txn" /\ ret[th].req = K1
        /\ ret[th].status = "OLAP_ERR_ROWSET_SAVE_FAILED"
        /\ Committed(K1) /\ Entry(K1).rowset = "R1"
        /\ rowset_version["R1"][1] > 0
        /\ IsStored(T1, "R1") /\ Stored(T1, "R1").start_version = 0

\* C22: the erase of publish_txn removes the entry of the published tablet and no
\* other; the TxnKey and its partition_map pair stay while another tablet is left
\* under the TxnKey and go with the last one. No other step of publish_txn
\* changes tablet_map or partition_map.
C22_PublishRemovesOnlyItsTablet ==
    [][\A th \in Threads : \A req \in universe.keys :
          StepOf(th, "publish_txn", req) =>
              IF pc[th] = "publish_erase"
              THEN /\ Committed(req)
                   /\ ~Present(req)'
                   /\ IndexEntries' = OtherEntries(req)
                   /\ \A e \in OtherEntries(req) : EntryAt(e)' = EntryAt(e)
                   /\ InTabletMap(req.partition_id, req.transaction_id)'
                         <=> \E e \in OtherEntries(req) : e[2] = TxnKey(req)
                   /\ req.partition_id \in PartitionsOf(req.transaction_id)'
                         <=> \E e \in OtherEntries(req) : e[2] = TxnKey(req)
                   /\ \A t \in TransactionIds :
                         PartitionsOf(t)' \ {req.partition_id} =
                             PartitionsOf(t) \ {req.partition_id}
              ELSE tablet_map' = tablet_map /\ partition_map' = partition_map]_vars

\* publish_txn of K1 has returned ok; the committed entry of the other tablet
\* under the TxnKey, the TxnKey and the partition pair are still there
C22_Witness ==
    \E th \in Threads :
        /\ ret[th].op = "publish_txn" /\ ret[th].req = K1 /\ ret[th].status = "OK"
        /\ ~Present(K1) /\ Committed(K3)
        /\ InTabletMap(1, 1) /\ PartitionsOf(1) = {1}

\* what commit_txn(req, load_id, rowset) returns from this state when no store
\* write fails; is_recovery is no argument of it
CommitStatus(req, load_id, rowset) ==
    IF rowset = NullRowset THEN "OLAP_ERR_ROWSET_INVALID"
    ELSE IF /\ Committed(req)
            /\ Entry(req).load_id = load_id
            /\ RowsetIdOf(Entry(req).rowset) # RowsetIdOf(rowset)
    THEN "OLAP_ERR_PUSH_TRANSACTION_ALREADY_EXIST"
    ELSE "OK"

\* whether that commit_txn upserts the entry
CommitUpserts(req, load_id, rowset) ==
    /\ rowset # NullRowset
    /\ ~(Committed(req) /\ Entry(req).load_id = load_id)

\* C23: a commit_txn in recovery never writes to the store and never returns
\* SaveFailed; whatever is_recovery is, a commit_txn whose store write does not
\* fail returns the status, and leaves the tablet_map and partition_map, that
\* the arguments other than is_recovery and the state before it determine.
C23_RecoveryCommitDiffersOnlyInStore ==
    [][\A th \in Threads : \A req \in universe.keys :
          StepOf(th, "commit_txn", req) =>
              LET c == call[th]
                  own == <<MapShardOf(req.transaction_id), TxnKey(req), req.tablet_info>>
              IN  /\ c.is_recovery => rms' = rms
                  /\ pc'[th] # "idle" =>
                        tablet_map' = tablet_map /\ partition_map' = partition_map
                  /\ (pc'[th] = "idle" /\ c.is_recovery) =>
                        ret'[th].status # "OLAP_ERR_ROWSET_SAVE_FAILED"
                  /\ (pc'[th] = "idle" /\ ret'[th].status # "OLAP_ERR_ROWSET_SAVE_FAILED") =>
                        /\ ret'[th].status = CommitStatus(req, c.load_id, c.rowset)
                        /\ IF CommitUpserts(req, c.load_id, c.rowset)
                           THEN /\ IndexEntries' = IndexEntries \cup {own}
                                /\ \A e \in IndexEntries \ {own} : EntryAt(e)' = EntryAt(e)
                                /\ Entry(req)' = [load_id |-> c.load_id, rowset |-> c.rowset,
                                                  creation_time |-> now]
                                /\ \A t \in TransactionIds :
                                      PartitionsOf(t)' =
                                          IF t = req.transaction_id
                                          THEN PartitionsOf(t) \cup {req.partition_id}
                                          ELSE PartitionsOf(t)
                           ELSE tablet_map' = tablet_map /\ partition_map' = partition_map]_vars

\* a recovery commit_txn of K1 has upserted R1 and the store does not hold it
C23_Witness ==
    \E th \in Threads :
        /\ ret[th].op = "commit_txn" /\ ret[th].req = K1
        /\ ret[th].status = "OK" /\ ret[th].line = 256
        /\ Committed(K1) /\ Entry(K1).rowset = "R1" /\ "R1" \in recovered
        /\ ~IsStored(T1, "R1")

\* C24 as claimed: the upsert of commit_txn keeps the creation_time of an entry
\* that is present, and sets it to the current time only when there was none.
C24_CommitKeepsCreationTime ==
    [][\A th \in Threads : \A req \in universe.keys :
          (StepOf(th, "commit_txn", req) /\ pc[th] = "commit_upsert") =>
              Entry(req)'.creation_time =
                  IF Present(req) THEN Entry(req).creation_time ELSE now]_vars

\* C24 as amended: the upsert of commit_txn sets creation_time to the current
\* time, whether an entry was present or not.
C24_CommitSetsCreationTime ==
    [][\A th \in Threads : \A req \in universe.keys :
          (StepOf(th, "commit_txn", req) /\ pc[th] = "commit_upsert") =>
              /\ Present(req)'
              /\ Entry(req)'.creation_time = now]_vars

\* a commit_txn has upserted the entry of K1 after the clock had advanced, and
\* the entry carries the time of the commit
C24_Witness ==
    \E th \in Threads :
        /\ ret[th].op = "commit_txn" /\ ret[th].req = K1
        /\ ret[th].status = "OK" /\ ret[th].line = 256
        /\ Committed(K1) /\ now > 0 /\ Entry(K1).creation_time = now

\* the rowsets of the committed entries of tablet_info in shard s
CommittedRowsetsOf(s, tablet_info) ==
    {EntryAt(e).rowset : e \in {x \in IndexEntries : /\ x[1] = s /\ x[3] = tablet_info
                                                     /\ EntryAt(x).rowset # NullRowset}}

\* thread th takes the turn of force_rollback_tablet_related_txns for shard s
ForceRollbackTurn(th, s, tablet_info) ==
    /\ pc[th] = "force_rollback_tablet_related_txns"
    /\ call[th].i = s /\ call[th].req.tablet_info = tablet_info
    /\ call'[th] # call[th]

\* what every turn does to the index, and that the last turn leaves no entry of
\* the tablet in any shard and the partition maps matching the tablet maps
ForceRollbackClearsIndex(th, s, tablet_info) ==
    /\ IndexEntries' = {e \in IndexEntries : ~(e[1] = s /\ e[3] = tablet_info)}
    /\ \A e \in IndexEntries' : EntryAt(e)' = EntryAt(e)
    /\ DOMAIN rms' \subseteq DOMAIN rms
    /\ \A k \in DOMAIN rms' : rms'[k] = rms[k]
    /\ \A k \in DOMAIN rms \ DOMAIN rms' :
          \E r \in CommittedRowsetsOf(s, tablet_info) :
              k = <<tablet_info.tablet_uid, RowsetIdOf(r)>>
    /\ pc'[th] = "idle" <=> s = txn_map_shard_size - 1
    /\ pc'[th] = "idle" =>
          /\ \A e \in IndexEntries' : e[3] # tablet_info
          /\ C1_PartitionMapMatchesTabletMap'

RetryStepOf(th, op, req) ==
    /\ StepOf(th, op, req)
    /\ last_failed = FailedCall(call[th])

\* the store holds, for the rowset of the tablet, the meta with this version
StoredWithVersion(store, tablet_info, rowset, version) ==
    /\ <<tablet_info.tablet_uid, RowsetIdOf(rowset)>> \in DOMAIN store
    /\ store[<<tablet_info.tablet_uid, RowsetIdOf(rowset)>>] =
          [rowset_id |-> RowsetIdOf(rowset), start_version |-> version[1],
           end_version |-> version[2]]

\* the effect of a repeated commit_txn
RetriedCommit(th, req) ==
    LET c == call[th]
    IN  /\ pc'[th] # "idle" =>
              tablet_map' = tablet_map /\ partition_map' = partition_map
        /\ pc'[th] = "idle" =>
              \/ /\ ret'[th].status = "OLAP_ERR_ROWSET_SAVE_FAILED"
                 /\ pc[th] = "commit_save"
                 /\ rms' = rms
              \/ /\ ret'[th].status = "OK" /\ ret'[th].line = 256
                 /\ Entry(req)' = [load_id |-> c.load_id, rowset |-> c.rowset,
                                   creation_time |-> now]
                 /\ StoredWithVersion(rms', req.tablet_info, c.rowset, rowset_version[c.rowset])
                 /\ req.partition_id \in PartitionsOf(req.transaction_id)'
                 /\ \A e \in OtherEntries(req) :
                       e \in IndexEntries' /\ EntryAt(e)' = EntryAt(e)

\* the effect of a repeated publish_txn on the index and the store
RetriedPublish(th, req) ==
    LET c == call[th]
    IN  /\ pc[th] # "publish_erase" =>
              tablet_map' = tablet_map /\ partition_map' = partition_map
        /\ pc[th] = "publish_lookup" => pc'[th] = "publish_visible"
        /\ pc[th] = "publish_erase" =>
              /\ IndexEntries' = OtherEntries(req)
              /\ \A e \in OtherEntries(req) : EntryAt(e)' = EntryAt(e)
        /\ pc'[th] = "idle" =>
              \/ /\ ret'[th].status = "OLAP_ERR_ROWSET_SAVE_FAILED"
                 /\ pc[th] = "publish_save"
                 /\ rms' = rms
              \/ /\ ret'[th].status # "OLAP_ERR_ROWSET_SAVE_FAILED"
                 /\ ~Present(req)'
                 /\ StoredWithVersion(rms', req.tablet_info, c.rowset_ptr, c.version)

\* C21 as claimed: a commit_txn or publish_txn that repeats the call that has
\* just returned SaveFailed either fails to save again or returns ok, with the
\* index and the store as a first call that saved leaves them: for commit_txn
\* the entry upserted and its meta stored, for publish_txn the entry removed and
\* the meta stored with the published version.
C21_RetryAfterSaveFailedReturnsOk ==
    [][\A th \in Threads : \A req \in universe.keys :
          /\ RetryStepOf(th, "commit_txn", req) => RetriedCommit(th, req)
          /\ RetryStepOf(th, "publish_txn", req) =>
                /\ RetriedPublish(th, req)
                /\ pc'[th] = "idle" =>
                      ret'[th].status \in {"OK", "OLAP_ERR_ROWSET_SAVE_FAILED"}]_vars

\* C21 as amended: so it is for the index and the store; the repeated
\* publish_txn returns ok unless the delete bitmap of a merge-on-write tablet,
\* computed after the erase, fails, and then it returns that error.
C21_RetryAfterSaveFailedSucceeds ==
    [][\A th \in Threads : \A req \in universe.keys :
          /\ RetryStepOf(th, "commit_txn", req) => RetriedCommit(th, req)
          /\ RetryStepOf(th, "publish_txn", req) =>
                /\ RetriedPublish(th, req)
                /\ pc'[th] = "idle" =>
                      \/ ret'[th].status \in {"OK", "OLAP_ERR_ROWSET_SAVE_FAILED"}
                      \/ /\ BuildsDeleteBitmap(req.tablet_info, call[th].rowset_ptr)
                         /\ ret'[th].line \in {337, 352}]_vars

\* the publish_txn of K1 that repeats one that failed to save has stored the
\* meta of R1 with the published version and is about to erase the entry
C21_Witness ==
    \E th \in Threads :
        /\ pc[th] = "publish_erase" /\ call[th].req = K1
        /\ last_failed = FailedCall(call[th])
        /\ Committed(K1) /\ Entry(K1).rowset = "R1"
        /\ StoredWithVersion(rms, T1, "R1", call[th].version)

\* the index entries of a tablet that are at least pending_data_expire_time_sec
\* old at time `at`
ExpiredEntries(tablet_info, at) ==
    {e \in IndexEntries :
        /\ e[3] = tablet_info
        /\ at - EntryAt(e).creation_time >= pending_data_expire_time_sec}

\* how many times txn_id is in the vector
CountOf(vector, txn_id) == Cardinality({j \in DOMAIN vector : vector[j] = txn_id})

\* C25: no step of build_expire_txn_map changes the index; when it returns, the
\* vector of every tablet holds the transaction id of every entry of the tablet,
\* committed or not, that was at least pending_data_expire_time_sec old at the
\* time the call read the clock, once for each such entry, and nothing else;
\* a tablet with no such entry has no vector.
C25_ExpireMapHoldsExpiredEntries ==
    [][\A th \in Threads :
          (pc[th] = "build_expire_txn_map" /\ call'[th] # call[th]) =>
              /\ tablet_map' = tablet_map /\ partition_map' = partition_map /\ rms' = rms
              /\ pc'[th] = "idle" =>
                    LET out == ret'[th].expire_txn_map
                        at == call[th].now
                    IN  /\ DOMAIN out = {t \in Tablets : ExpiredEntries(t, at) # {}}
                        /\ \A t \in DOMAIN out :
                              /\ Len(out[t]) = Cardinality(ExpiredEntries(t, at))
                              /\ \A txn_id \in TransactionIds :
                                    CountOf(out[t], txn_id) =
                                        Cardinality({e \in ExpiredEntries(t, at) :
                                                        e[2][2] = txn_id})]_vars

\* build_expire_txn_map has returned transaction 1 for T1 and not transaction 2,
\* whose entry for T1 is younger; the entry of K1 is committed
C25_Witness ==
    \E th \in Threads :
        /\ ret[th].op = "build_expire_txn_map"
        /\ ret[th].expire_txn_map = (T1 :> <<1>>)
        /\ Committed(K1) /\ Present(K5)
        /\ now - Entry(K1).creation_time >= pending_data_expire_time_sec
        /\ now - Entry(K5).creation_time < pending_data_expire_time_sec

\* the DeltaWriters registered for (transaction, tablet) in any shard
RegisteredWriters(transaction_id, tablet_id) ==
    {txn_tablet_delta_writer_map[s][transaction_id][tablet_id] :
        s \in {x \in MapShards :
                  /\ transaction_id \in DOMAIN txn_tablet_delta_writer_map[x]
                  /\ tablet_id \in DOMAIN txn_tablet_delta_writer_map[x][transaction_id]}}

\* the handler op of thread th, called for (transaction, tablet), runs in this step
WriterStep(th, op, transaction_id, tablet_id) ==
    /\ pc[th] = op /\ pc'[th] = "idle"
    /\ call[th].req.transaction_id = transaction_id
    /\ call[th].req.tablet_info.tablet_id = tablet_id

\* C28: add_txn_tablet_delta_writer makes its writer the one registered for
\* (txn, tablet) and changes no other registration; clear_txn_tablet_delta_writer
\* removes every registration of its txn and no other; neither notifies.
\* finish_slave_tablet_pull_rowset changes no registration; it notifies, with its
\* node id and result, the one writer registered for (txn, tablet) at that
\* moment, and nothing when there is none, so a writer that was replaced or
\* cleared before is not notified. None of the three changes tablet_map,
\* partition_map or the store.
C28_FinishNotifiesRegisteredWriter ==
    [][\A th \in Threads : \A txn \in WriterTxns : \A tablet \in WriterTablets \cup {0} :
          /\ WriterStep(th, "add_txn_tablet_delta_writer", txn, tablet) =>
                /\ RegisteredWriters(txn, tablet)' = {call[th].delta_writer}
                /\ \A x \in WriterTxns, y \in WriterTablets :
                      <<x, y>> # <<txn, tablet>> =>
                          RegisteredWriters(x, y)' = RegisteredWriters(x, y)
                /\ notified' = notified
          /\ WriterStep(th, "clear_txn_tablet_delta_writer", txn, tablet) =>
                /\ \A y \in WriterTablets : RegisteredWriters(txn, y)' = {}
                /\ \A x \in WriterTxns \ {txn}, y \in WriterTablets :
                      RegisteredWriters(x, y)' = RegisteredWriters(x, y)
                /\ notified' = notified
          /\ WriterStep(th, "finish_slave_tablet_pull_rowset", txn, tablet) =>
                /\ txn_tablet_delta_writer_map' = txn_tablet_delta_writer_map
                /\ IF RegisteredWriters(txn, tablet) = {}
                   THEN notified' = notified
                   ELSE /\ RegisteredWriters(txn, tablet) = {notified'.writer}
                        /\ notified'.node_id = call[th].node_id
                        /\ notified'.is_succeed = call[th].is_succeed
                        /\ notified'.parity # notified.parity
          /\ (\E op \in {"add_txn_tablet_delta_writer", "clear_txn_tablet_delta_writer",
                         "finish_slave_tablet_pull_rowset"} :
                 WriterStep(th, op, txn, tablet)) =>
                /\ tablet_map' = tablet_map /\ partition_map' = partition_map
                /\ rms' = rms]_vars

\* a finish_slave_tablet_pull_rowset has notified W2, the writer registered for
\* transaction 1 and tablet 7; transaction 3 of the same shard has W1 for that
\* tablet, transaction 1 has no writer for tablet 8, and K1 is in the index
C28_Witness ==
    /\ ret["t2"].op = "finish_slave_tablet_pull_rowset"
    /\ notified.writer = "W2" /\ notified.is_succeed /\ notified.parity = 0
    /\ RegisteredWriters(1, 7) = {"W2"}
    /\ RegisteredWriters(3, 7) = {"W1"}
    /\ RegisteredWriters(1, 8) = {}
    /\ Present(K1)

\* thread th is in commit_txn between its existence check and its upsert
InCommitSection(th) ==
    /\ call[th].op = "commit_txn"
    /\ pc[th] \in {"commit_check", "commit_save", "commit_upsert"}

\* thread th is in publish_txn between its lookup and its erase
InPublishSection(th) ==
    /\ call[th].op = "publish_txn"
    /\ pc[th] \in {"publish_lookup", "publish_visible", "publish_save", "publish_erase"}

\* C29: no two threads are at the same time inside the section of commit_txn from
\* the existence check to the upsert, or the section of publish_txn from the
\* lookup to the erase, for the same transaction id.
C29_CommitAndPublishExcludeEachOther ==
    \A th1 \in Threads : \A th2 \in Threads \ {th1} :
        (/\ InCommitSection(th1) \/ InPublishSection(th1)
         /\ InCommitSection(th2) \/ InPublishSection(th2))
        => call[th1].req.transaction_id # call[th2].req.transaction_id

\* t1 is about to write the rowset meta in commit_txn for transaction 1 while t2
\* has called publish_txn for transaction 1 and waits for the mutex t1 holds
C29_Witness ==
    /\ InCommitSection("t1") /\ pc["t1"] = "commit_save"
    /\ call["t1"].req.transaction_id = 1
    /\ call["t2"].op = "publish_txn" /\ pc["t2"] = "publish_txn"
    /\ call["t2"].req.transaction_id = 1
    /\ txn_mutex[TxnShardOf(1)] = "t1"
    /\ Committed(call["t2"].req)

\* the threads call the handlers with pairwise distinct requests
DistinctKeys ==
    \A th1 \in Threads : \A th2 \in Threads \ {th1} : KeysOf(th1) \cap KeysOf(th2) = {}

\* the steps in which a handler writes to the index, each under one write guard
WriteStep(th) ==
    pc[th] \in {"prepare_txn", "rollback_txn", "delete_txn", "commit_upsert", "publish_erase"}

\* C27: when the threads call prepare_txn, commit_txn, publish_txn, rollback_txn
\* and delete_txn with pairwise distinct requests, every call acts on tablet_map
\* and partition_map as if it ran alone at its one write step, which it takes
\* while it holds the per-txn mutex if it takes one: no other step of the call
\* changes the maps, and what the call has read of its entry before (commit_txn
\* that it is not committed by this load, publish_txn its rowset) is still so at
\* the write step, where commit_txn upserts and publish_txn erases as they do
\* when run alone. The maps at the end are therefore those of the calls run one
\* after another in the order of their write steps.
C27_CallsActAtTheirWriteStep ==
    [][DistinctKeys =>
          \A th \in Threads : \A req \in universe.keys :
              (call[th].req = req /\ pc'[th] # pc[th] /\ pc[th] # "idle") =>
                  LET c == call[th]
                      own == <<MapShardOf(req.transaction_id), TxnKey(req), req.tablet_info>>
                  IN  /\ ~WriteStep(th) =>
                            tablet_map' = tablet_map /\ partition_map' = partition_map
                      /\ pc[th] \in {"prepare_txn", "rollback_txn", "delete_txn"} =>
                            pc'[th] = "idle"
                      /\ pc[th] \in {"commit_check", "commit_save", "commit_upsert"} =>
                            txn_mutex[TxnShardOf(req.transaction_id)] = th
                      /\ (c.op = "commit_txn" /\ pc'[th] = "idle"
                          /\ ret'[th].status # "OLAP_ERR_ROWSET_SAVE_FAILED") =>
                            ret'[th].status = CommitStatus(req, c.load_id, c.rowset)
                      /\ pc[th] \in {"commit_save", "commit_upsert"} =>
                            CommitUpserts(req, c.load_id, c.rowset)
                      /\ pc[th] = "commit_upsert" =>
                            /\ IndexEntries' = IndexEntries \cup {own}
                            /\ \A e \in IndexEntries \ {own} : EntryAt(e)' = EntryAt(e)
                            /\ Entry(req)' = [load_id |-> c.load_id, rowset |-> c.rowset,
                                              creation_time |-> now]
                            /\ \A t \in TransactionIds :
                                  PartitionsOf(t)' =
                                      IF t = req.transaction_id
                                      THEN PartitionsOf(t) \cup {req.partition_id}
                                      ELSE PartitionsOf(t)
                      /\ (pc[th] = "publish_lookup" /\ pc'[th] = "idle") => ~Committed(req)
                      /\ pc[th] \in {"publish_lookup", "publish_visible", "publish_save",
                                     "publish_erase"} =>
                            txn_mutex[TxnShardOf(req.transaction_id)] = th
                      /\ pc[th] \in {"publish_visible", "publish_save", "publish_erase"} =>
                            Committed(req) /\ Entry(req).rowset = c.rowset_ptr
                      /\ pc[th] = "publish_erase" =>
                            /\ IndexEntries' = OtherEntries(req)
                            /\ \A e \in OtherEntries(req) : EntryAt(e)' = EntryAt(e)
                            /\ \A t \in TransactionIds :
                                  PartitionsOf(t)' =
                                      {p \in PartitionsOf(t) :
                                          \E e \in OtherEntries(req) : e[2] = <<p, t>>}]_vars

\* t1 is between the check and the upsert of a commit_txn of K1 while t2 is
\* between the lookup and the erase of a publish_txn of K5, a request of another
\* transaction with another mutex, which found its rowset
C27_Witness ==
    /\ DistinctKeys
    /\ call["t1"].op = "commit_txn" /\ call["t1"].req = K1 /\ pc["t1"] = "commit_upsert"
    /\ call["t2"].op = "publish_txn" /\ call["t2"].req = K5 /\ pc["t2"] = "publish_erase"
    /\ Committed(K5) /\ ~Present(K1)

\* thread th takes the mutex of shard s in this step
TakesMutex(th, s) == txn_mutex[s] # th /\ txn_mutex'[s] = th

\* C30: a per-txn mutex is held only by a thread in commit_txn or publish_txn; a
\* thread takes it in the first step of the handler, when it is free, holding no
\* other mutex and outside every shard guard section (the step reads and writes
\* neither map); and every handler a thread has called returns.
C30_NoDeadlockAndEveryCallReturns ==
    /\ [](\A s \in TxnShards : \A th \in Threads :
            txn_mutex[s] = th =>
                /\ call[th].op \in {"commit_txn", "publish_txn"}
                /\ TxnShardOf(call[th].req.transaction_id) = s)
    /\ [][\A th \in Threads : \A s \in TxnShards :
            TakesMutex(th, s) =>
                /\ pc[th] \in {"commit_txn", "publish_txn"}
                /\ txn_mutex[s] = NoThread
                /\ \A x \in TxnShards : txn_mutex[x] # th
                /\ tablet_map' = tablet_map /\ partition_map' = partition_map]_vars
    /\ \A th \in ConcThreads : (pc[th] # "idle") ~> (pc[th] = "idle")

\* t2 has called commit_txn for the request of the publish_txn that t1 is in the
\* middle of, and waits for the mutex t1 holds
C30_Witness ==
    /\ call["t1"].op = "publish_txn" /\ pc["t1"] = "publish_save"
    /\ call["t2"].op = "commit_txn" /\ pc["t2"] = "commit_txn"
    /\ call["t2"].rowset # NullRowset
    /\ call["t1"].req = call["t2"].req
    /\ txn_mutex[TxnShardOf(call["t2"].req.transaction_id)] = "t1"

\* the steps a thread takes while it holds a guard of a shard's rw-lock: every
\* step but the entry of commit_txn and publish_txn, the store writes and
\* make_visible of these two, and the delete bitmap building
HoldsShardGuard(label) ==
    label \in {"prepare_txn", "commit_check", "commit_upsert", "publish_lookup",
               "publish_erase", "rollback_txn", "delete_txn",
               "force_rollback_tablet_related_txns", "build_expire_txn_map"}

\* thread th takes a step of the handler it is in
Acts(th) == pc[th] # "idle" /\ (pc'[th] # pc[th] \/ call'[th] # call[th])

\* thread th holds the per-txn mutex of the transaction of its call
HoldsTxnMutex(th) == txn_mutex[TxnShardOf(call[th].req.transaction_id)] = th

\* C31 (as stated): no step that writes to the RowsetMetaStore is taken under a
\* shard guard, and those of commit_txn and publish_txn hold the per-txn mutex.
C31_StoreWritesOutsideShardGuard ==
    [][\A th \in Threads :
          (Acts(th) /\ rms' # rms) =>
              /\ ~HoldsShardGuard(pc[th])
              /\ call[th].op \in {"commit_txn", "publish_txn"} => HoldsTxnMutex(th)]_vars

\* C31 (amended): the save of commit_txn and of publish_txn is a step outside
\* every shard guard, taken with the per-txn mutex held, that changes neither
\* tablet_map nor partition_map; the remove of delete_txn and of
\* force_rollback_tablet_related_txns is made under the shard's write guard, by a
\* thread that holds no per-txn mutex. No other step writes to the store.
C31_SavesOutsideAndRemovesUnderShardGuard ==
    [][\A th \in Threads :
          /\ (Acts(th) /\ rms' # rms) =>
                \/ /\ call[th].op \in {"commit_txn", "publish_txn"}
                   /\ pc[th] \in {"commit_save", "publish_save"}
                   /\ ~HoldsShardGuard(pc[th])
                   /\ HoldsTxnMutex(th)
                \/ /\ call[th].op \in {"delete_txn", "force_rollback_tablet_related_txns"}
                   /\ HoldsShardGuard(pc[th])
                   /\ \A x \in TxnShards : txn_mutex[x] # th
          /\ (Acts(th) /\ pc[th] \in {"commit_save", "publish_save"}) =>
                /\ tablet_map' = tablet_map /\ partition_map' = partition_map
                /\ HoldsTxnMutex(th)]_vars

\* a delete_txn has removed the meta of a committed rowset from the store in the
\* step that erased its entry
C31_Witness ==
    \E th \in Threads :
        /\ ret[th].op = "delete_txn" /\ ret[th].status = "OK"
        /\ ret[th].unused = <<"R1">>
        /\ ~Present(K1) /\ ~IsStored(T1, "R1")

\* C32: a step changes a tablet's delete bitmap or saves its meta only in a
\* publish_txn whose tablet has unique-key merge-on-write enabled and prefers
\* BETA_ROWSET and whose rowset has UNIQUE_KEYS; when one of the three is false
\* the publish_txn that has erased its entry returns ok at once, with the delete
\* bitmap and the saved meta of every tablet unchanged.
C32_DeleteBitmapOnlyForMergeOnWrite ==
    [][\A th \in Threads :
          LET c == call[th]
              all_three == /\ enable_unique_key_merge_on_write(c.req.tablet_info)
                           /\ preferred_rowset_type(c.req.tablet_info) = "BETA_ROWSET"
                           /\ keys_type(c.rowset_ptr) = "UNIQUE_KEYS"
          IN  /\ (Acts(th) /\ tablet_meta' # tablet_meta) =>
                    /\ c.op = "publish_txn" /\ c.rowset_ptr # NullRowset /\ all_three
                    /\ \A t \in Tablets \ {c.req.tablet_info} :
                          tablet_meta'[t] = tablet_meta[t]
              /\ (Acts(th) /\ pc[th] = "publish_bitmap" /\ ~all_three) =>
                    /\ pc'[th] = "idle"
                    /\ ret'[th].status = "OK"
                    /\ tablet_meta' = tablet_meta
              /\ (Acts(th) /\ c.op = "publish_txn" /\ ~all_three) =>
                    tablet_meta' = tablet_meta]_vars

\* a publish_txn for the merge-on-write tablet T4 with a rowset of duplicate keys
\* has returned ok and left the delete bitmap empty
C32_Witness ==
    \E th \in Threads :
        /\ ret[th].op = "publish_txn" /\ ret[th].status = "OK"
        /\ ret[th].req = K4 /\ rowset_version["R2"] # Unpublished
        /\ tablet_meta[T4].delete_bitmap = {} /\ tablet_meta[T4].saved = {}

\* thread th is in the loop over the batches of segment i of its rowset
InSegment(th) ==
    /\ pc[th] = "publish_segments"
    /\ call[th].i <= Len(SegmentsOf(call[th].rowset_ptr))

\* C33: while publish_txn traverses a segment, the keys processed so far and the
\* keys still to read make up the segment, in order; every turn of the loop over
\* the batches that reads processes at least one key and lowers `remaining`,
\* never below zero; and the loop leaves the segment with every key processed
\* exactly once, in order.
C33_TraversalProcessesEveryKeyOnce ==
    [][\A th \in Threads :
          (InSegment(th) /\ Acts(th)) =>
              LET c == call[th]
                  seg == SegmentsOf(c.rowset_ptr)[c.i]
              IN  /\ c.remaining >= 0
                  /\ c.processed = SubSeq(seg, 1, Len(seg) - c.remaining)
                  /\ (c.remaining = 0 /\ pc'[th] = "publish_segments") => c.processed = seg
                  /\ (c.remaining > 0 /\ pc'[th] = "publish_segments") =>
                        /\ call'[th].i = c.i
                        /\ call'[th].remaining < c.remaining
                        /\ call'[th].remaining >= 0
                        /\ Len(call'[th].processed) > Len(c.processed)]_vars

\* the loop has processed all the keys of a segment of four keys, twice the
\* batch size, and turns to the next segment
C33_Witness ==
    \E th \in Threads :
        /\ InSegment(th)
        /\ Len(SegmentsOf(call[th].rowset_ptr)[call[th].i]) = 2 * batch_size
        /\ call[th].remaining = 0
        /\ call[th].processed = SegmentsOf(call[th].rowset_ptr)[call[th].i]

\* the segments among the first n of a rowset that hold a key
SegmentsWith(rowset, n, key) ==
    {j \in 1..n : SegmentLookup(SegmentsOf(rowset)[j], key) # {}}

\* the delete bitmap entry of the copy of a key in segment j of a rowset
CopyIn(rowset, j, key, version) ==
    [rowset_id |-> RowsetIdOf(rowset), segment_id |-> j - 1, version |-> version[1],
     row_id |-> CHOOSE r \in SegmentLookup(SegmentsOf(rowset)[j], key) : TRUE]

\* the entries the claim has the processing of one key of segment i add
EntriesFor(tablet_info, rowset, i, key, version) ==
    LET before == SegmentsWith(rowset, i - 1, key)
    IN  IF before # {}
        THEN {CopyIn(rowset, CHOOSE j \in before : \A k \in before : k <= j, key, version)}
        ELSE {[rowset_id |-> loc.rowset_id, segment_id |-> loc.segment_id,
               version |-> version[1], row_id |-> loc.row_id] :
                 loc \in TabletLookup(tablet_info, key, version[1] - 1)}

\* C34: a turn of the loop over the batches adds to the tablet's delete bitmap,
\* for each key it processes, the entry of the copy in the most recently
\* processed segment that holds the key, or else the entry of the row the tablet
\* holds for the key at snapshot version.first - 1, if any, and nothing else; and
\* when publish_txn returns after the last segment, every copy of a key but the
\* one in the last segment that holds it is in the delete bitmap, which is saved.
C34_DeleteBitmapMarksOlderCopies ==
    [][\A th \in Threads :
          (pc[th] = "publish_segments" /\ Acts(th)) =>
              LET c == call[th]
                  t == c.req.tablet_info
                  segments == SegmentsOf(c.rowset_ptr)
                  new == {call'[th].processed[n] :
                             n \in (Len(c.processed) + 1)..Len(call'[th].processed)}
              IN  /\ (InSegment(th) /\ c.remaining > 0 /\ pc'[th] = "publish_segments") =>
                        tablet_meta'[t].delete_bitmap =
                            tablet_meta[t].delete_bitmap \cup
                            UNION {EntriesFor(t, c.rowset_ptr, c.i, key, c.version) :
                                      key \in new}
                  /\ (c.i > Len(segments) /\ ret'[th].status = "OK") =>
                        /\ \A key \in 1..MaxKeys :
                              \A j \in SegmentsWith(c.rowset_ptr, Len(segments), key) :
                                 (\E k \in SegmentsWith(c.rowset_ptr, Len(segments), key) :
                                     k > j) =>
                                       CopyIn(c.rowset_ptr, j, key, c.version)
                                           \in tablet_meta[t].delete_bitmap
                        /\ tablet_meta'[t].saved = tablet_meta[t].delete_bitmap]_vars

\* publish_txn has returned ok for a rowset whose three segments all hold key 1
\* and whose first and last segment hold key 2: the copies of key 1 in the first
\* two segments, the copy of key 2 in the first segment and the row the tablet
\* held for key 1 are marked, and nothing else
C34_Witness ==
    /\ "segments" \in DOMAIN universe
    /\ universe.segments = << <<1, 2>>, <<1>>, <<1, 2>> >>
    /\ ret["t1"].op = "publish_txn" /\ ret["t1"].status = "OK"
    /\ rowset_version["R4"] = <<1, 1>>
    /\ tablet_meta[T3].saved =
          {[rowset_id |-> 104, segment_id |-> 0, version |-> 1, row_id |-> 0],
           [rowset_id |-> 104, segment_id |-> 1, version |-> 1, row_id |-> 0],
           [rowset_id |-> 104, segment_id |-> 0, version |-> 1, row_id |-> 1],
           [rowset_id |-> 100, segment_id |-> 0, version |-> 1, row_id |-> 0]}

\* thread th returns from publish_txn for req in this step, with a status other
\* than ok
PublishFails(th, req) ==
    /\ StepOf(th, "publish_txn", req)
    /\ pc'[th] = "idle"
    /\ ret'[th].status # "OK"

\* C35 (as stated): when publish_txn returns a status other than ok, the entry it
\* was called for is in the index.
C35_FailedPublishKeepsEntry ==
    [][\A th \in Threads : \A req \in universe.keys :
          PublishFails(th, req) => Present(req)']_vars

\* C35 (amended): when publish_txn returns SaveFailed, the committed entry it
\* looked up is still in the index; when it returns TransactionNotExist, the
\* index has no committed entry for the request and the step changes nothing;
\* when it returns an error of the delete bitmap building, the entry is erased
\* and the store holds the rowset's meta with the published version.
C35_FailedPublishKeepsEntryBeforeErase ==
    [][\A th \in Threads : \A req \in universe.keys :
          PublishFails(th, req) =>
              /\ tablet_map' = tablet_map /\ partition_map' = partition_map
              /\ rms' = rms
              /\ ret'[th].status \in {"OLAP_ERR_ROWSET_SAVE_FAILED",
                                      "OLAP_ERR_TRANSACTION_NOT_EXIST", "ERROR"}
              /\ ret'[th].status = "OLAP_ERR_ROWSET_SAVE_FAILED" =>
                    /\ Committed(req)
                    /\ Entry(req).rowset = call[th].rowset_ptr
              /\ ret'[th].status = "OLAP_ERR_TRANSACTION_NOT_EXIST" => ~Committed(req)
              /\ ret'[th].status = "ERROR" =>
                    \A rowset \in Rowsets : \A version \in Versions :
                        (call[th].rowset_ptr = rowset /\ call[th].version = version) =>
                            /\ ~Present(req)
                            /\ BuildsDeleteBitmap(req.tablet_info, rowset)
                            /\ StoredWithVersion(rms, req.tablet_info, rowset, version)]_vars

\* publish_txn of the merge-on-write tablet has returned the error of the delete
\* bitmap building: the entry of its request is erased and the rowset's meta is
\* stored with the published version
C35_Witness ==
    \E th \in Threads :
        /\ ret[th].op = "publish_txn" /\ ret[th].req = K6 /\ ret[th].status = "ERROR"
        /\ ~Present(K6)
        /\ IsStored(T3, "R4") /\ rowset_version["R4"] # Unpublished

\* the last call of thread th was a delete_txn for req that returned ok, having
\* removed the meta of rowset from the store and handed the rowset to
\* add_unused_rowset
DeletedUnused(th, req, rowset) ==
    /\ pc[th] = "idle"
    /\ ret[th].op = "delete_txn" /\ ret[th].req = req /\ ret[th].status = "OK"
    /\ ret[th].unused = <<rowset>>

\* C36: once delete_txn has returned ok for a committed, unpublished entry, with
\* the rowset's meta removed from the store and the rowset handed to
\* add_unused_rowset, no step of a publish_txn for the same request, also one
\* that was running when delete_txn ran, writes the meta of that rowset to the
\* store again.
C36_DeletedMetaIsNotWrittenBack ==
    [][\A th \in Threads : \A req \in universe.keys : \A rowset \in Rowsets :
          (/\ DeletedUnused(th, req, rowset)
           /\ ~IsStored(req.tablet_info, rowset)
           /\ \E other \in Threads : StepOf(other, "publish_txn", req)) =>
              ~IsStored(req.tablet_info, rowset)']_vars

\* C37: when no call is running, every value of the store with the unpublished
\* version belongs to the rowset of a committed entry of the index.
C37_UnpublishedMetaHasCommittedEntry ==
    (\A th \in Threads : pc[th] = "idle") =>
        \A stored \in DOMAIN rms :
            rms[stored].start_version = 0 =>
                \E req \in universe.keys :
                    /\ Committed(req)
                    /\ req.tablet_info.tablet_uid = stored[1]
                    /\ RowsetIdOf(Entry(req).rowset) = stored[2]

\* C38: a step of publish_txn does not erase an entry that holds another rowset
\* than the one the publish_txn looked up, made visible and saved: an entry that
\* replaced it after the lookup stays in the index.
C38_PublishErasesOnlyWhatItPublished ==
    [][\A th \in Threads : \A req \in universe.keys :
          (/\ StepOf(th, "publish_txn", req)
           /\ call[th].rowset_ptr # NullRowset
           /\ Present(req) /\ Entry(req).rowset # call[th].rowset_ptr) =>
              Present(req)' /\ Entry(req)' = Entry(req)]_vars

\* both threads have returned from publish_txn calls for req that ran at the same
\* time, the entry of req committed when the second was made, and neither has
\* called since
BothPublished(req) ==
    \A th \in Threads :
        /\ pc[th] = "idle"
        /\ ret[th].op = "publish_txn" /\ ret[th].req = req /\ ret[th].raced

C40_NoTxnKeyWithoutTablets ==
    \A s \in MapShards : \A key \in DOMAIN tablet_map[s] :
        DOMAIN tablet_map[s][key] # {}

\* rollback_txn has removed the only tablet of TxnKey (1, 1), and the TxnKey with
\* it, while TxnKey (1, 3) of the same shard keeps its tablet
C40_Witness ==
    /\ \E th \in Threads :
          /\ ret[th].op = "rollback_txn" /\ ret[th].req = K1 /\ ret[th].status = "OK"
    /\ TxnKey(K1) \notin DOMAIN tablet_map[MapShardOf(1)]
    /\ TxnKey(K4) \in DOMAIN tablet_map[MapShardOf(3)]
    /\ MapShardOf(1) = MapShardOf(3)
====
